---- MODULE Spec2Model ----
(***************************************************************************)
(* Option-implied PDF extractor (src/src/core/breeden_litz.py) and its     *)
(* volatility surface (src/src/core/sabr.py) as a state machine, with the  *)
(* two volatility models as objects of their own.                          *)
(*                                                                         *)
(* Representation of the numbers.  Every real array of the program is a    *)
(* vector of exact rationals with one common denominator,                  *)
(*     [num |-> <<n1, ..., nk>>, den |-> d]   standing for  ni / d, d > 0, *)
(* kept in lowest terms, so float rounding is the only thing left out.     *)
(* Strikes and the spot are integers: the spot is a multiple of SpotUnit,  *)
(* which makes spot*0.80, spot*1.20 and the linspace grid integers.        *)
(* Rates are counted in units of ln 2 per year, so that e^(r*T) is the     *)
(* exact integer 2^(r*T).  Python's None is <<>> and a set field is <<v>>. *)
(***************************************************************************)
EXTENDS Integers, Sequences, FiniteSets, TLC

VARIABLES
    pdf,        \* self.pdf      None | <<vector>>
    strikes,    \* self.strikes  None | <<sequence of grid strikes>>
    cdf,        \* self.cdf      None | <<vector>>
    spot,       \* self.spot     None | <<spot_price>>
    params,     \* self.params   {} (as <<>>) | <<[risk_free_rate, time_to_expiry, option_type]>>
    outcome,    \* what the last call did: returned or raised, and its trace
    input,      \* history: facts about the arguments of the last call, if it
                \* was calculate_from_options
    succeeded,  \* history: has any calculate_from_options call returned so far
    market_prices,  \* history: the local market_prices of the last call, if it
                    \* was calculate_from_options and got that far
    sabr_model,     \* a SABRModel object
    spline_model,   \* a CubicSplineInterpolator object
    vol_outcome,    \* what the last call on one of the two models did
    completed,      \* history: the models on which a calibrate call has returned
    matcher,            \* a PDFPatternMatcher: [similarity_threshold, max_matches]
    corpus,             \* the historical densities handed to the matcher
    matches,            \* the list the last find_similar_patterns call returned
    pattern_outcome,    \* what the last call on the matcher was, and its value
    pattern_store,      \* the last store_pattern_matches call: the rows it built,
                        \* whether the commit raised, the rows of the table
    threads,            \* two callers, each with an extractor of its own: the
                        \* position in calculate_from_options, the arguments,
                        \* the locals, the instance and the result
    module_globals,     \* the names the core modules hold at module level
    calibration,        \* a SABRModel.calibrate call in progress: where it is,
                        \* the searches it has started and the iterations of
                        \* the one that runs
    smoothing           \* the last _breeden_litzenberger call on a curve of
                        \* its own: the arguments and the density returned
    ,statistics         \* the last PDFStatistics object: its strikes, its
                        \* pdf and the stats its constructor computed
    ,response           \* the last /api/analyze request and what the
                        \* endpoint answered
    ,cache_files        \* the files of the directory '.cache', by path
    ,clock              \* datetime.now(), in minutes
    ,cache_calls        \* per key, the last set call since the key was
                        \* last cleared: its time and its data
    ,cache_outcome      \* the last call on the cache and what it returned
    ,manager            \* a DataManager: use_cache and active_source
    ,manager_call       \* the last call of a method of the manager: where it
                        \* is, the clients called so far and how each ended,
                        \* what it returned
    ,analysis           \* the /api/analyze handler: where it is, its request
                        \* and its locals

extractorVars == <<pdf, strikes, cdf, spot, params, outcome, input, succeeded, market_prices>>

volVars == <<sabr_model, spline_model, vol_outcome, completed>>

patternVars == <<matcher, corpus, matches, pattern_outcome, pattern_store>>

concurrentVars == <<threads, module_globals>>

searchVars == <<calibration>>

smoothVars == <<smoothing>>

statVars == <<statistics>>

dataVars == <<response, cache_files, clock, cache_calls, cache_outcome, manager, manager_call, analysis>>

vars == <<extractorVars, volVars, patternVars, concurrentVars, searchVars, smoothVars, statVars, dataVars>>

(* What the calls on one group of objects leave alone                      *)
restOfExtractor == <<volVars, patternVars, concurrentVars, searchVars, smoothVars, statVars, dataVars>>

restOfVol == <<extractorVars, patternVars, concurrentVars, searchVars, smoothVars, statVars, dataVars>>

restOfPattern == <<extractorVars, volVars, concurrentVars, searchVars, smoothVars, statVars, dataVars>>

restOfConcurrent == <<extractorVars, volVars, patternVars, searchVars, smoothVars, statVars, dataVars>>

restOfSearch == <<extractorVars, volVars, patternVars, concurrentVars, smoothVars, statVars, dataVars>>

restOfSmooth == <<extractorVars, volVars, patternVars, concurrentVars, searchVars, statVars, dataVars>>

restOfStat == <<extractorVars, volVars, patternVars, concurrentVars, searchVars, smoothVars, dataVars>>

restOfData == <<extractorVars, volVars, patternVars, concurrentVars, searchVars, smoothVars, statVars>>

---------------------------------------------------------------------------
(* Program constants (src/config/constants.py) *)

MIN_STRIKE_PCT == 80            \* 0.80, in percent
MAX_STRIKE_PCT == 120           \* 1.20, in percent
MIN_STRIKES_FOR_PDF == 10
MAX_HISTORICAL_MATCHES == 5

(* options={'maxiter': 1000} of both scipy.optimize.minimize calls *)
MAXITER == 1000

(* np.linspace(min_strike, max_strike, 100): the points of the common grid *)
(* two densities are re-sampled on (core/patterns.py)                      *)
CommonPoints == 100

(* Bounds of the model *)

GridPoints == 6                 \* stands for PDF_GRID_POINTS (500 in the source)
MaxExtra == 2                   \* rows of the option table beyond the BaseRows
MaxSpot == 3                    \* spots tried: SpotUnit .. MaxSpot * SpotUnit
MaxCorpus == 3                  \* entries of a corpus of historical densities
MaxQuotes == 3                  \* quotes in a direct call of a model's calibrate
MaxRequests == 1                \* requests to the endpoint

SpotUnit == 10 * (GridPoints - 1)

None == <<>>
Some(v) == <<v>>

---------------------------------------------------------------------------
(* Exact rational vectors *)

Abs(a) == IF a < 0 THEN -a ELSE a

Max(a, b) == IF a >= b THEN a ELSE b

Min(a, b) == IF a <= b THEN a ELSE b

RECURSIVE Gcd(_, _)
Gcd(a, b) == IF b = 0 THEN a ELSE Gcd(b, a % b)

Lcm(a, b) == (a \div Gcd(a, b)) * b

(* The greatest common divisor of |s[lo]|, ..., |s[hi]|, by halves *)
RECURSIVE GcdBetween(_, _, _)
GcdBetween(s, lo, hi) ==
    IF lo > hi THEN 0
    ELSE IF lo = hi THEN Abs(s[lo])
    ELSE LET mid == (lo + hi) \div 2
         IN  Gcd(GcdBetween(s, lo, mid), GcdBetween(s, mid + 1, hi))

SeqGcd(s, i) == GcdBetween(s, i, Len(s))

(* f[lo] + ... + f[hi], by halves *)
RECURSIVE SumBetween(_, _, _)
SumBetween(f, lo, hi) ==
    IF lo > hi THEN 0
    ELSE IF lo = hi THEN f[lo]
    ELSE LET mid == (lo + hi) \div 2
         IN  SumBetween(f, lo, mid) + SumBetween(f, mid + 1, hi)

SumTo(f, n) == SumBetween(f, 1, n)

Vec(num, den) ==
    LET g == Gcd(SeqGcd(num, 1), den)
    IN  [num |-> [i \in 1..Len(num) |-> num[i] \div g], den |-> den \div g]

Rat(n, d) ==
    LET g == Gcd(Abs(n), d) IN [num |-> n \div g, den |-> d \div g]

---------------------------------------------------------------------------
(* numpy / scipy array primitives used by the extractor *)

(* Mutant: n points from lo, the end point left out (endpoint=False).     *)
LinspaceNoEndpoint(lo, hi, n) == [i \in 1..n |-> lo + ((hi - lo) * (i - 1)) \div n]

(* np.linspace(lo, hi, n): n equally spaced points, both ends included.   *)
Linspace(lo, hi, n) == [i \in 1..n |-> lo + ((hi - lo) * (i - 1)) \div (n - 1)]

(* np.gradient(f, x) on the equally spaced grid x: one-sided first        *)
(* differences at the two ends, central differences inside.               *)
Gradient(f, x) ==
    LET n == Len(f.num)
        h == x[2] - x[1]
        d == [i \in 1..n |->
                IF i = 1 THEN 2 * (f.num[2] - f.num[1])
                ELSE IF i = n THEN 2 * (f.num[n] - f.num[n - 1])
                ELSE f.num[i + 1] - f.num[i - 1]]
    IN  Vec(d, 2 * h * f.den)

(* np.maximum(v, 0) *)
Clip(v) == Vec([i \in 1..Len(v.num) |-> Max(v.num[i], 0)], v.den)

(* scipy.integrate.trapezoid(v, x), as a rational *)
Trapezoid(v, x) ==
    LET n == Len(v.num)
        t == [i \in 1..(n - 1) |-> (x[i + 1] - x[i]) * (v.num[i] + v.num[i + 1])]
    IN  Rat(SumTo(t, n - 1), 2 * v.den)

(* scipy.integrate.cumulative_trapezoid(v, x, initial=0) *)
CumulativeTrapezoid(v, x) ==
    LET n == Len(v.num)
        t == [i \in 1..(n - 1) |-> (x[i + 1] - x[i]) * (v.num[i] + v.num[i + 1])]
    IN  Vec([i \in 1..n |-> SumTo(t, i - 1)], 2 * v.den)

(* e^(r*T) with r in units of ln 2 per year *)
ExpRT(r, T) == 2 ^ (r * T)

(* scipy.signal.savgol_filter(v, window_length=w, polyorder=3), default   *)
(* mode 'interp': output i is the least-squares cubic through the w       *)
(* samples of the window centred on i, evaluated at i; within half a      *)
(* window of an end the window is the first (last) w samples.  The cubic  *)
(* fit is the projection on the Gram polynomials of degree 0..3 over the  *)
(* offsets -m..m, m = (w-1)/2.                                            *)
GramPoly(k, m, j) ==
    CASE k = 0 -> 1
      [] k = 1 -> j
      [] k = 2 -> 3 * j * j - m * (m + 1)
      [] k = 3 -> 5 * j * j * j - (3 * m * m + 3 * m - 1) * j

GramSeq(k, m) ==
    LET raw == [i \in 1..(2 * m + 1) |-> GramPoly(k, m, i - m - 1)]
        g == SeqGcd(raw, 1)
    IN  [i \in 1..(2 * m + 1) |-> raw[i] \div g]

GramNorm(k, m) ==
    LET q == GramSeq(k, m)
    IN  SumTo([i \in 1..(2 * m + 1) |-> q[i] * q[i]], 2 * m + 1)

SavgolDen(m) ==
    Lcm(Lcm(GramNorm(0, m), GramNorm(1, m)), Lcm(GramNorm(2, m), GramNorm(3, m)))

(* The projection itself: SavgolDen(m) times the weight of sample j of the *)
(* window in the fitted value at position t, for each half-width in use.   *)
MaxHalfWindow == (Min(51, GridPoints) - 1) \div 2

SavgolWeights ==
    [m \in 2..MaxHalfWindow |->
        [t \in 1..(2 * m + 1) |->
            [j \in 1..(2 * m + 1) |->
                SumTo([kk \in 1..4 |-> GramSeq(kk - 1, m)[t] * GramSeq(kk - 1, m)[j]
                                       * (SavgolDen(m) \div GramNorm(kk - 1, m))], 4)]]]

SavgolFilter(v, w) ==
    LET n == Len(v.num)
        m == (w - 1) \div 2
        hat == SavgolWeights[m]
        fit(i) == LET s == Min(Max(i - m, 1), n - w + 1)
                  IN  SumTo([j \in 1..w |-> hat[i - s + 1][j] * v.num[s + j - 1]], w)
    IN  Vec([i \in 1..n |-> fit(i)], SavgolDen(m) * v.den)

---------------------------------------------------------------------------
(* BreedenlitzenbergPDF: the numerical steps *)

(* Mutant: two less than the length when the length is odd.                *)
WindowLengthShort(n) == Min(51, IF n % 2 = 1 THEN n - 2 ELSE n - 1)

(* window_length = min(51, len(pdf) if len(pdf) % 2 == 1 else len(pdf) - 1) *)
WindowLength(n) == Min(51, IF n % 2 = 1 THEN n ELSE n - 1)


(* Mutant: no second np.maximum after the smoothing.                       *)
BreedenLitzenbergerNoReclip(K, call_prices, r, T, smoothFails) ==
    LET d2C_dK2 == Gradient(Gradient(call_prices, K), K)
        clipped == Clip(Vec([i \in 1..Len(K) |-> ExpRT(r, T) * d2C_dK2.num[i]],
                            d2C_dK2.den))
        window_length == WindowLength(Len(clipped.num))
    IN  IF window_length >= 5 /\ ~smoothFails
        THEN SavgolFilter(clipped, window_length)
        ELSE clipped

(* _breeden_litzenberger: e^(rT) * d2C/dK2, clipped at 0, smoothed and     *)
(* clipped again.  smoothFails: savgol_filter raised, which the bare       *)
(* except swallows, leaving the clipped curve.                             *)
BreedenLitzenberger(K, call_prices, r, T, smoothFails) ==
    LET dC_dK == Gradient(call_prices, K)
        d2C_dK2 == Gradient(dC_dK, K)
        raw == Vec([i \in 1..Len(K) |-> ExpRT(r, T) * d2C_dK2.num[i]], d2C_dK2.den)
        clipped == Clip(raw)
        window_length == WindowLength(Len(clipped.num))
    IN  IF window_length >= 5 /\ ~smoothFails
        THEN Clip(SavgolFilter(clipped, window_length))
        ELSE clipped


(* Mutant: divides by the sum of the entries, not by the integral.         *)
NormalizePdfBySum(K, p) ==
    LET total == SumTo(p.num, Len(p.num))
    IN  IF total <= 0
        THEN [pdf |-> p, raised |-> TRUE]
        ELSE [pdf |-> Vec(p.num, total), raised |-> FALSE]

(* Mutant: a curve without mass is returned as it is.                      *)
NormalizePdfUnchecked(K, p) ==
    LET integral == Trapezoid(p, K)
    IN  IF integral.num <= 0
        THEN [pdf |-> p, raised |-> FALSE]
        ELSE [pdf |-> Vec([i \in 1..Len(p.num) |-> p.num[i] * integral.den],
                          p.den * integral.num),
              raised |-> FALSE]

(* _normalize_pdf: raises when the trapezoidal integral is <= 0 *)
NormalizePdf(K, p) ==
    LET integral == Trapezoid(p, K)
    IN  IF integral.num <= 0
        THEN [pdf |-> p, raised |-> TRUE]
        ELSE [pdf |-> Vec([i \in 1..Len(p.num) |-> p.num[i] * integral.den],
                          p.den * integral.num),
              raised |-> FALSE]


(* Mutant: a running sum of the entries, np.cumsum(pdf * dK).              *)
CalculateCdfCumsum(K, p) ==
    LET c == [i \in 1..Len(p.num) |-> SumTo(p.num, i)]
        last == c[Len(c)]
    IN  IF last > 0 THEN Vec(c, last) ELSE Vec(c, 1)

(* _calculate_cdf: cdf / cdf[-1] if cdf[-1] > 0 else cdf *)
CalculateCdf(K, p) ==
    LET c == CumulativeTrapezoid(p, K)
        last == c.num[Len(c.num)]
    IN  IF last > 0 THEN Vec(c.num, last) ELSE c

(* interpolate.interp1d(x, y, kind='linear', fill_value='extrapolate') at  *)
(* level: the segment holding level, or the first (last) segment extended  *)
(* when level lies below (above) the grid.                                 *)
Interp1d(x, y, level) ==
    LET n == Len(x)
        inside == {i \in 1..(n - 1) : x[i] <= level /\ level <= x[i + 1]}
        i == IF level < x[1] THEN 1
             ELSE IF level > x[n] THEN n - 1
             ELSE CHOOSE j \in inside : \A k \in inside : j <= k
    IN  Rat(y.num[i] * (x[i + 1] - level) + y.num[i + 1] * (level - x[i]),
            (x[i + 1] - x[i]) * y.den)

---------------------------------------------------------------------------
(* Volatility surface (src/src/core/sabr.py) *)

Inf == 10 ^ 6                   \* an implied vol of +inf (not finite)

IsFinite(v) == v # Inf

(* valid_mask = (implied_vols > 0) & (strikes > 0) & np.isfinite(implied_vols) *)
ValidMask(q) == q.impliedVolatility > 0 /\ q.strike > 0 /\ IsFinite(q.impliedVolatility)

RECURSIVE SortByStrike(_)
SortByStrike(s) ==
    IF Len(s) <= 1 THEN s
    ELSE LET i == CHOOSE a \in 1..Len(s) :
                      /\ \A b \in 1..Len(s) : s[a].strike <= s[b].strike
                      /\ \A b \in 1..(a - 1) : s[b].strike # s[a].strike
         IN  <<s[i]>> \o SortByStrike(SubSeq(s, 1, i - 1) \o SubSeq(s, i + 1, Len(s)))

StrictlyIncreasing(s) == \A i \in 1..(Len(s) - 1) : s[i].strike < s[i + 1].strike

NoModel == [kind |-> "", is_calibrated |-> FALSE, points |-> 0,
            optimizers |-> <<>>, success |-> FALSE]

(* SABRModel.calibrate.  nm, lb: whether the Nelder-Mead search, and the   *)
(* L-BFGS-B retry, report success (scipy.optimize.minimize's verdicts).    *)
(* The parameters of the last search run are stored whatever it reports.   *)
SABRCalibrate(quotes, nm, lb) ==
    LET valid == SelectSeq(quotes, ValidMask)
    IN  IF Len(valid) < 3
        THEN [raised |-> TRUE, error |-> "sabr_calibration", model |-> NoModel]
        ELSE [raised |-> FALSE, error |-> "",
              model |-> [kind |-> "sabr", is_calibrated |-> TRUE, points |-> Len(valid),
                         optimizers |-> IF nm THEN <<"Nelder-Mead">>
                                        ELSE <<"Nelder-Mead", "L-BFGS-B">>,
                         success |-> IF nm THEN TRUE ELSE lb]]

(* CubicSplineInterpolator.calibrate.  scipy's CubicSpline raises          *)
(* ValueError on fewer than 2 points and on strikes that are not strictly  *)
(* increasing; the method itself checks nothing.                           *)
SplineCalibrate(quotes) ==
    LET valid == SortByStrike(SelectSeq(quotes, ValidMask))
    IN  IF Len(valid) < 2 \/ ~StrictlyIncreasing(valid)
        THEN [raised |-> TRUE, error |-> "spline_calibration", model |-> NoModel]
        ELSE [raised |-> FALSE, error |-> "",
              model |-> [kind |-> "spline", is_calibrated |-> TRUE, points |-> Len(valid),
                         optimizers |-> <<>>, success |-> TRUE]]


(* Mutant: no try/except around SABRModel.calibrate.                       *)
CalibrateWithoutFallback(quotes, method, nm, lb) ==
    LET sabr == SABRCalibrate(quotes, nm, lb)
        spline == SplineCalibrate(quotes)
    IN  IF method = "sabr"
        THEN [raised |-> sabr.raised, error |-> sabr.error, model |-> sabr.model,
              steps |-> IF sabr.raised THEN <<"sabr:raised">> ELSE <<"sabr:returned">>]
        ELSE IF method = "spline"
        THEN [raised |-> spline.raised, error |-> spline.error, model |-> spline.model,
              steps |-> IF spline.raised THEN <<"spline:raised">>
                        ELSE <<"spline:returned">>]
        ELSE [raised |-> TRUE, error |-> "unknown_method", model |-> NoModel,
              steps |-> <<>>]

(* calibrate_volatility_surface: 'sabr' falls back to 'spline' on any      *)
(* exception of SABRModel.calibrate; an unknown method raises.  steps      *)
(* lists the calibrations attempted and how each ended.                    *)
CalibrateVolatilitySurface(quotes, method, nm, lb) ==
    LET sabr == SABRCalibrate(quotes, nm, lb)
        spline == SplineCalibrate(quotes)
        after(steps) ==
            IF spline.raised
            THEN [raised |-> TRUE, error |-> spline.error, model |-> NoModel,
                  steps |-> Append(steps, "spline:raised")]
            ELSE [raised |-> FALSE, error |-> "", model |-> spline.model,
                  steps |-> Append(steps, "spline:returned")]
    IN  IF method = "sabr"
        THEN IF sabr.raised
             THEN after(<<"sabr:raised">>)
             ELSE [raised |-> FALSE, error |-> "", model |-> sabr.model,
                   steps |-> <<"sabr:returned">>]
        ELSE IF method = "spline"
        THEN after(<<>>)
        ELSE [raised |-> TRUE, error |-> "unknown_method", model |-> NoModel,
              steps |-> <<>>]

---------------------------------------------------------------------------
(* The two volatility models as objects *)

(* SABRModel.calibrate search by search.  Parameters are counted in        *)
(* thousandths: the initial guess (0.2, -0.3, 0.3) and the box             *)
(* [(0.001, 2.0), (-0.999, 0.999), (0.001, 2.0)].                          *)
InitialGuess == <<200, -300, 300>>

Box == <<<<1, 2000>>, <<-999, 999>>, <<1, 2000>>>>

NoCalibrateCall == [points |-> 0, pc |-> "idle", runs |-> <<>>, iterations |-> 0]

Search(method, bounds) ==
    [success |-> None, method |-> method, bounds |-> bounds, x0 |-> InitialGuess,
     maxiter |-> MAXITER]

(* calibrate entered: the count check, then the first minimize call *)
BeginCalibrate(quotes) ==
    LET valid == SelectSeq(quotes, ValidMask)
    IN  IF Len(valid) < 3
        THEN [points |-> Len(valid), pc |-> "raised", runs |-> <<>>, iterations |-> 0]
        ELSE [points |-> Len(valid), pc |-> "search",
              runs |-> <<Search("Nelder-Mead", None)>>, iterations |-> 0]

(* Mutant: the bounded search is run whatever the first one reports.       *)
AfterSearchAlwaysRetry(cal, success) ==
    LET ended == [cal.runs EXCEPT ![Len(cal.runs)].success = Some(success)]
    IN  IF Len(cal.runs) = 1
        THEN [cal EXCEPT !.runs = Append(ended, Search("L-BFGS-B", Some(Box))),
                         !.iterations = 0]
        ELSE [cal EXCEPT !.pc = "done", !.runs = ended]

(* A minimize call has returned with result.success = success: after the   *)
(* first one, the second is started if not result.success; after the       *)
(* second, or a first one that succeeded, calibrate stores result.x and     *)
(* returns.                                                                *)
AfterSearch(cal, success) ==
    LET ended == [cal.runs EXCEPT ![Len(cal.runs)].success = Some(success)]
    IN  IF Len(cal.runs) = 1 /\ ~success
        THEN [cal EXCEPT !.runs = Append(ended, Search("L-BFGS-B", Some(Box))),
                         !.iterations = 0]
        ELSE [cal EXCEPT !.pc = "done", !.runs = ended]

(* SABRModel.__init__: fit stands for alpha, rho and nu.                   *)
NewSABRModel == [fit |-> None, is_calibrated |-> FALSE, forward |-> None, tau |-> None]

(* CubicSplineInterpolator.__init__ *)
NewSplineModel == [is_calibrated |-> FALSE, spline |-> None]

(* Mutant: is_calibrated is set on entry, before the points are counted.   *)
SABRModelCalibrateEager(self, quotes, forward, tau, nm, lb) ==
    LET res == SABRCalibrate(quotes, nm, lb)
    IN  [raised |-> res.raised, points |-> res.model.points, error |-> res.error,
         self |-> IF res.raised
                  THEN [self EXCEPT !.forward = Some(forward), !.tau = Some(tau),
                                    !.is_calibrated = TRUE]
                  ELSE [fit |-> Some(res.model), is_calibrated |-> TRUE,
                        forward |-> Some(forward), tau |-> Some(tau)]]

(* SABRModel.calibrate on an object: forward and tau are assigned before   *)
(* the points are counted, is_calibrated only once the search is over.     *)
SABRModelCalibrate(self, quotes, forward, tau, nm, lb) ==
    LET res == SABRCalibrate(quotes, nm, lb)
    IN  [raised |-> res.raised, points |-> res.model.points, error |-> res.error,
         self |-> IF res.raised
                  THEN [self EXCEPT !.forward = Some(forward), !.tau = Some(tau)]
                  ELSE [fit |-> Some(res.model), is_calibrated |-> TRUE,
                        forward |-> Some(forward), tau |-> Some(tau)]]

(* CubicSplineInterpolator.calibrate on an object: nothing is assigned     *)
(* when scipy's CubicSpline raises.                                        *)
SplineModelCalibrate(self, quotes) ==
    LET res == SplineCalibrate(quotes)
    IN  [raised |-> res.raised, points |-> res.model.points, error |-> res.error,
         self |-> IF res.raised THEN self
                  ELSE [is_calibrated |-> TRUE, spline |-> Some(res.model)]]

(* SABRModel.get_volatility: one volatility per strike asked for.          *)
SABRGetVolatility(self, grid) ==
    IF ~self.is_calibrated
    THEN [raised |-> TRUE, points |-> 0, error |-> "not_calibrated"]
    ELSE [raised |-> FALSE, points |-> Len(grid), error |-> ""]

(* CubicSplineInterpolator.get_volatility *)
SplineGetVolatility(self, grid) ==
    IF ~self.is_calibrated
    THEN [raised |-> TRUE, points |-> 0, error |-> "not_calibrated"]
    ELSE [raised |-> FALSE, points |-> Len(grid), error |-> ""]

---------------------------------------------------------------------------
(* BreedenlitzenbergPDF.calculate_from_options *)

MinStrike(spot_price) == (spot_price * MIN_STRIKE_PCT) \div 100

MaxStrike(spot_price) == (spot_price * MAX_STRIKE_PCT) \div 100


(* Mutant: the band without its two ends.                                  *)
FilterRowsExclusive(options_df, spot_price) ==
    LET keep(q) == /\ q.strike > MinStrike(spot_price)
                   /\ q.strike < MaxStrike(spot_price)
                   /\ q.price > 0
    IN  SelectSeq(options_df, keep)

(* options_df[(strike >= min_strike) & (strike <= max_strike) & (price > 0)] *)
FilterRows(options_df, spot_price) ==
    LET keep(q) == /\ q.strike >= MinStrike(spot_price)
                   /\ q.strike <= MaxStrike(spot_price)
                   /\ q.price > 0
    IN  SelectSeq(options_df, keep)

(* df.columns; every table tried has rows *)
Columns(df) == IF Len(df) = 0 THEN {} ELSE DOMAIN df[1]

(* The local market_prices: the price column of the filtered, sorted       *)
(* table, replaced by (bid + ask) / 2 only if the table has no price       *)
(* column and has bid and ask.  None when the call raises before.          *)
MarketPrices(options_df, spot_price) ==
    LET df == SortByStrike(FilterRows(options_df, spot_price))
    IN  IF "price" \notin Columns(options_df) \/ Len(df) < MIN_STRIKES_FOR_PDF
        THEN None
        ELSE Some([i \in 1..Len(df) |->
                      IF "price" \notin Columns(df) /\ {"bid", "ask"} \subseteq Columns(df)
                      THEN Rat(df[i].bid + df[i].ask, 2)
                      ELSE Rat(df[i].price, 1)])

Failure(error, count, cal) ==
    [pdf |-> None, strikes |-> None, cdf |-> None, raised |-> TRUE,
     error |-> error, model |-> cal.model, steps |-> cal.steps, count |-> count]

NoCalibration == [raised |-> FALSE, error |-> "", model |-> NoModel, steps |-> <<>>]

(* The whole call but for the two assignments to self.spot and             *)
(* self.params that precede everything.  prices: the Black-Scholes prices  *)
(* of the grid strikes at the volatilities of the calibrated model.        *)
CalculateFromOptions(options_df, spot_price, r, T, method, nm, lb, prices, smoothFails) ==
    LET df == SortByStrike(FilterRows(options_df, spot_price))
        cal == CalibrateVolatilitySurface(df, method, nm, lb)
        strike_grid == Linspace(MinStrike(spot_price), MaxStrike(spot_price), GridPoints)
        raw == BreedenLitzenberger(strike_grid, Vec(prices, 1), r, T, smoothFails)
        norm == NormalizePdf(strike_grid, raw)
    IN  IF "price" \notin Columns(options_df)
        THEN Failure("missing_column", 0, NoCalibration)
        ELSE IF Len(df) < MIN_STRIKES_FOR_PDF
        THEN Failure("insufficient_data", Len(df), NoCalibration)
        ELSE IF cal.raised
        THEN Failure(cal.error, 0, cal)
        ELSE IF norm.raised
        THEN Failure("degenerate_density", 0, cal)
        ELSE [pdf |-> Some(norm.pdf), strikes |-> Some(strike_grid), cdf |-> Some(CalculateCdf(strike_grid, norm.pdf)), raised |-> FALSE,
              error |-> "", model |-> cal.model,
              steps |-> cal.steps,
              count |-> 0]


(* Mutant: 0.0 instead of an error before any result is stored.            *)
GetProbabilityLenient(selfCdf, selfStrikes, strike_level, condition) ==
    IF selfCdf = None \/ selfStrikes = None
    THEN [raised |-> FALSE, error |-> "", value |-> Rat(0, 1)]
    ELSE LET prob_below == Interp1d(selfStrikes[1], selfCdf[1], strike_level)
         IN  IF condition = "below"
             THEN [raised |-> FALSE, error |-> "", value |-> prob_below]
             ELSE IF condition = "above"
             THEN [raised |-> FALSE, error |-> "",
                   value |-> Rat(prob_below.den - prob_below.num, prob_below.den)]
             ELSE [raised |-> TRUE, error |-> "bad_condition", value |-> Rat(0, 1)]

(* Mutant: 'above' returns the probability below.                          *)
GetProbabilityNoComplement(selfCdf, selfStrikes, strike_level, condition) ==
    IF selfCdf = None \/ selfStrikes = None
    THEN [raised |-> TRUE, error |-> "not_ready", value |-> Rat(0, 1)]
    ELSE IF condition \in {"below", "above"}
    THEN [raised |-> FALSE, error |-> "",
          value |-> Interp1d(selfStrikes[1], selfCdf[1], strike_level)]
    ELSE [raised |-> TRUE, error |-> "bad_condition", value |-> Rat(0, 1)]

(* get_probability: raises before any result is stored, and on a           *)
(* condition other than 'below' and 'above'.                               *)
GetProbability(selfCdf, selfStrikes, strike_level, condition) ==
    IF selfCdf = None \/ selfStrikes = None
    THEN [raised |-> TRUE, error |-> "not_ready", value |-> Rat(0, 1)]
    ELSE LET prob_below == Interp1d(selfStrikes[1], selfCdf[1], strike_level)
         IN  IF condition = "below"
             THEN [raised |-> FALSE, error |-> "", value |-> prob_below]
             ELSE IF condition = "above"
             THEN [raised |-> FALSE, error |-> "",
                   value |-> Rat(prob_below.den - prob_below.num, prob_below.den)]
             ELSE [raised |-> TRUE, error |-> "bad_condition", value |-> Rat(0, 1)]

(* get_probability_range: P(below upper) - P(below lower) *)
GetProbabilityRange(selfCdf, selfStrikes, lower_strike, upper_strike) ==
    LET prob_below_upper == GetProbability(selfCdf, selfStrikes, upper_strike, "below")
        prob_below_lower == GetProbability(selfCdf, selfStrikes, lower_strike, "below")
    IN  IF prob_below_upper.raised THEN prob_below_upper
        ELSE IF prob_below_lower.raised THEN prob_below_lower
        ELSE [raised |-> FALSE, error |-> "",
              value |-> Rat(prob_below_upper.value.num * prob_below_lower.value.den
                            - prob_below_lower.value.num * prob_below_upper.value.den,
                            prob_below_upper.value.den * prob_below_lower.value.den)]

---------------------------------------------------------------------------
(* Pattern matcher (src/src/core/patterns.py)                              *)
(*                                                                         *)
(* A density is [strikes, pdf, nan]: integer strikes and values; nan says  *)
(* that every value is NaN.  A statistic is [nan, v]: v counts units of    *)
(* ln 2, and the values of implied_move_pct tried are multiples of its     *)
(* scale 5, so that exp(-|difference| / scale) is the exact rational       *)
(* 2^(-|v1 - v2| / scale).  NaN as a rational is 0/0.                      *)

NaN == [num |-> 0, den |-> 0]

IsNaN(x) == x.den = 0

RatSub(a, b) == Rat(a.num * b.den - b.num * a.den, a.den * b.den)

RatAdd(a, b) == Rat(a.num * b.den + b.num * a.den, a.den * b.den)

RatMul(a, b) == Rat(a.num * b.num, a.den * b.den)

(* a / b < c / d for b, d > 0, by the integer parts and then the          *)
(* remainders turned over: no product is formed.                          *)
RECURSIVE FracLess(_, _, _, _)
FracLess(a, b, c, d) ==
    IF a \div b # c \div d THEN a \div b < c \div d
    ELSE IF c % d = 0 THEN FALSE
    ELSE IF a % b = 0 THEN TRUE
    ELSE FracLess(d, c % d, b, a % b)

(* a < b and a <= b for rationals whose cross products pass 32 bits; with *)
(* a NaN the first is false and the second true, as RatLess and RatLeq.   *)
RatLessWide(a, b) == ~IsNaN(a) /\ ~IsNaN(b) /\ FracLess(a.num, a.den, b.num, b.den)

RatLeqWide(a, b) == IsNaN(a) \/ IsNaN(b) \/ ~FracLess(b.num, b.den, a.num, a.den)

(* a * b in lowest terms, the common factors taken out before the products *)
RatTimes(a, b) ==
    LET g == Gcd(Abs(a.num), b.den)
        h == Gcd(Abs(b.num), a.den)
    IN  [num |-> (a.num \div g) * (b.num \div h), den |-> (a.den \div h) * (b.den \div g)]

RatLess(a, b) == a.num * b.den < b.num * a.den

RatLeq(a, b) == a.num * b.den <= b.num * a.den

Sign(a) == IF a > 0 THEN 1 ELSE IF a < 0 THEN -1 ELSE 0

SeqMin(x) == CHOOSE a \in {x[i] : i \in 1..Len(x)} : \A i \in 1..Len(x) : a <= x[i]

SeqMax(x) == CHOOSE a \in {x[i] : i \in 1..Len(x)} : \A i \in 1..Len(x) : a >= x[i]

Dot(a, b) == SumTo([i \in 1..Len(a) |-> a[i] * b[i]], Len(a))

RECURSIVE GapLcm(_, _)
GapLcm(xp, i) == IF i >= Len(xp) THEN 1 ELSE Lcm(xp[i + 1] - xp[i], GapLcm(xp, i + 1))

(* np.linspace(lo, hi, CommonPoints), every point times CommonPoints - 1;  *)
(* the points decrease when lo > hi.                                       *)
CommonGrid(lo, hi) ==
    [i \in 1..CommonPoints |-> lo * (CommonPoints - 1) + (hi - lo) * (i - 1)]

(* np.interp(x, xp, fp) at the points x = X[i] / m: linear inside xp, the  *)
(* first (last) value of fp to the left (right) of it.                     *)
NpInterp(X, m, xp, fp) ==
    LET n == Len(xp)
        W == GapLcm(xp, 1)
        at(x) ==
            IF x <= m * xp[1] THEN fp[1] * m * W
            ELSE IF x >= m * xp[n] THEN fp[n] * m * W
            ELSE LET j == CHOOSE a \in 1..(n - 1) :
                              /\ m * xp[a] <= x /\ x <= m * xp[a + 1]
                              /\ \A b \in 1..(a - 1) : ~(x <= m * xp[b + 1])
                 IN  (fp[j] * (m * xp[j + 1] - x) + fp[j + 1] * (x - m * xp[j]))
                         * (W \div (xp[j + 1] - xp[j]))
    IN  Vec([i \in 1..Len(X) |-> at(X[i])], m * W)


(* _pdf_shape_similarity.  Dividing by the two integrals leaves the        *)
(* direction of each vector alone and flips it when the integral is        *)
(* negative, so 1 - cosine(...) is sign(i1) * sign(i2) * u.v / sqrt(u.u *  *)
(* v.v); with an integral of 0 (or NaN) the vectors are NaN, so is the     *)
(* similarity, and max(0.0, min(1.0, nan)) is 1.0.  The value returned is  *)
(* the square root of sq; zero_division tells that one of the two          *)
(* divisions was by zero.                                                  *)
PdfShapeSimilarity(d1, d2) ==
    LET min_strike == Max(SeqMin(d1.strikes), SeqMin(d2.strikes))
        max_strike == Min(SeqMax(d1.strikes), SeqMax(d2.strikes))
        common_grid == CommonGrid(min_strike, max_strike)
        pdf1_interp == NpInterp(common_grid, CommonPoints - 1, d1.strikes, d1.pdf)
        pdf2_interp == NpInterp(common_grid, CommonPoints - 1, d2.strikes, d2.pdf)
        i1 == Trapezoid(pdf1_interp, common_grid).num
        i2 == Trapezoid(pdf2_interp, common_grid).num
        uv == Sign(i1) * Sign(i2) * Dot(pdf1_interp.num, pdf2_interp.num)
        uu == Dot(pdf1_interp.num, pdf1_interp.num)
        vv == Dot(pdf2_interp.num, pdf2_interp.num)
        zero1 == ~d1.nan /\ i1 = 0
        zero2 == ~d2.nan /\ i2 = 0
    IN  [sq |-> IF d1.nan \/ d2.nan \/ i1 = 0 \/ i2 = 0 THEN Rat(1, 1)
                ELSE IF uv <= 0 THEN Rat(0, 1)
                ELSE RatTimes(Rat(uv, uu), Rat(uv, vv)),
         zero_division |-> zero1 \/ zero2]

(* Densities and statistics handed to the matcher *)
Density(k, p) == [pdf |-> p, strikes |-> k, nan |-> FALSE]

Num(v) == [v |-> v, nan |-> FALSE]

Stats(skewness, excess_kurtosis, implied_move_pct) ==
    [skewness |-> skewness, excess_kurtosis |-> excess_kurtosis,
     implied_move_pct |-> implied_move_pct]

Tent == Density(<<10, 11, 12, 13, 14>>, <<0, 0, 1, 0, 0>>)

(* The second one has the shape of the first and other statistics.         *)
Currents ==
    <<[stats |-> Stats(Num(0), Num(0), Num(5)), density |-> Tent],
      [stats |-> Stats(Num(1), Num(0), Num(10)),
       density |-> Density(<<10, 11, 12, 13, 14>>, <<0, 0, 2, 0, 0>>)]>>

(* Entries of the corpus: the same density and statistics as the first     *)
(* current one; one with mass only where the current ones have none; one   *)
(* on a range that meets neither current one; one without mass and with    *)
(* one feature only; one with a NaN statistic; one whose values are NaN,   *)
(* without statistics.  Their shape similarity to the current ones is 0 or *)
(* 1 on every common grid.                                                 *)
EntryKinds ==
    <<[stats |-> Stats(Num(0), Num(0), Num(5)), density |-> Tent, metadata |-> <<>>],
      [stats |-> Stats(Num(0), Num(0), Num(10)),
       density |-> Density(<<10, 11, 12, 13, 14>>, <<1, 0, 0, 0, 1>>), metadata |-> [event |-> "Pre-earnings"]],
      [stats |-> Stats(Num(-1), Num(1), Num(5)),
       density |-> Density(<<20, 22, 24>>, <<1, 2, 1>>), metadata |-> <<>>],
      [stats |-> [skewness |-> Num(1)],
       density |-> Density(<<10, 12, 14>>, <<0, 0, 0>>), metadata |-> <<>>],
      [stats |-> Stats([v |-> 0, nan |-> TRUE], Num(0), Num(5)),
       density |-> Tent, metadata |-> <<>>],
      [stats |-> <<>>,
       density |-> [pdf |-> <<0, 0, 0>>, strikes |-> <<10, 12, 14>>, nan |-> TRUE], metadata |-> <<>>]>>

(* What the similarity is computed of directly: every density of values   *)
(* 0 and 1 on three ranges (the range of the current ones, one that        *)
(* overlaps it and one that does not meet it), and one whose values are    *)
(* NaN.                                                                    *)
PairDensities ==
    {Density(k, p) : k \in {<<10, 12, 14>>, <<12, 14, 16>>, <<20, 22, 24>>},
                     p \in [1..3 -> {0, 1}]}
    \cup {[pdf |-> <<0, 0, 0>>, strikes |-> <<10, 12, 14>>, nan |-> TRUE]}

(* _pdf_shape_similarity is a function of its arguments: its value on the *)
(* pairs of densities drawn here is computed once.                         *)
KnownShapes ==
    {<<Currents[c].density, d, PdfShapeSimilarity(Currents[c].density, d)>> :
        c \in 1..Len(Currents),
        d \in PairDensities \cup {EntryKinds[k].density : k \in 1..Len(EntryKinds)}}

ShapeSimilarityOf(d1, d2) ==
    IF \E e \in KnownShapes : e[1] = d1 /\ e[2] = d2
    THEN (CHOOSE e \in KnownShapes : e[1] = d1 /\ e[2] = d2)[3]
    ELSE PdfShapeSimilarity(d1, d2)

PATTERN_SIMILARITY_THRESHOLD == Rat(85, 100)

(* PDFPatternMatcher.__init__ *)
NewPDFPatternMatcher(similarity_threshold, max_matches) ==
    [similarity_threshold |-> similarity_threshold, max_matches |-> max_matches]

Features == <<"skewness", "excess_kurtosis", "implied_move_pct">>

(* scale = 1.0 for skewness and excess_kurtosis, 5.0 for implied_move_pct  *)
Scale == <<1, 1, 5>>

(* Mutant: the mean is taken over the three features, present or not.      *)
StatsSimilarityOfThree(stats1, stats2) ==
    LET shared == {i \in 1..Len(Features) :
                      Features[i] \in DOMAIN stats1 /\ Features[i] \in DOMAIN stats2}
        diff(i) == Abs(stats1[Features[i]].v - stats2[Features[i]].v) \div Scale[i]
        widest == CHOOSE d \in {diff(i) : i \in shared} : \A i \in shared : diff(i) <= d
        terms == [i \in 1..Len(Features) |->
                     IF i \in shared THEN 2 ^ (widest - diff(i)) ELSE 0]
    IN  IF shared = {} THEN Rat(1, 2)
        ELSE IF \E i \in shared : stats1[Features[i]].nan \/ stats2[Features[i]].nan
        THEN NaN
        ELSE Rat(SumTo(terms, Len(Features)), (2 ^ widest) * Len(Features))

(* _stats_similarity: the mean of exp(-|val1 - val2| / scale) over the     *)
(* features both mappings have, 0.5 when they share none; NaN as soon as   *)
(* one compared value is NaN.                                              *)
StatsSimilarity(stats1, stats2) ==
    LET shared == {i \in 1..Len(Features) :
                      Features[i] \in DOMAIN stats1 /\ Features[i] \in DOMAIN stats2}
        diff(i) == Abs(stats1[Features[i]].v - stats2[Features[i]].v) \div Scale[i]
        widest == CHOOSE d \in {diff(i) : i \in shared} : \A i \in shared : diff(i) <= d
        terms == [i \in 1..Len(Features) |->
                     IF i \in shared THEN 2 ^ (widest - diff(i)) ELSE 0]
    IN  IF shared = {} THEN Rat(1, 2)
        ELSE IF \E i \in shared : stats1[Features[i]].nan \/ stats2[Features[i]].nan
        THEN NaN
        ELSE Rat(SumTo(terms, Len(Features)), (2 ^ widest) * Cardinality(shared))

(* _calculate_similarity: 0.7 * shape_sim + 0.3 * stats_sim, kept as the   *)
(* pair of its two parts: the score is 0.7 * sqrt(shape_sq) + 0.3 * stats. *)
CalculateSimilarity(current, current_stats, hist, hist_stats) ==
    [stats |-> StatsSimilarity(current_stats, hist_stats),
     shape_sq |-> ShapeSimilarityOf(current, hist).sq]

ScoreIsNaN(score) == IsNaN(score.stats)

(* The square root of a rational in lowest terms that is a square *)
SqrtRat(q) ==
    [num |-> CHOOSE r \in 0..q.num : r * r = q.num,
     den |-> CHOOSE r \in 1..q.den : r * r = q.den]

(* The number a score is, when its shape part is rational *)
ScoreValue(score) ==
    RatAdd(RatMul(Rat(7, 10), SqrtRat(score.shape_sq)), RatMul(Rat(3, 10), score.stats))

(* x > y for two scores that are numbers *)
ScoreGreater(x, y) == RatLess(ScoreValue(y), ScoreValue(x))

(* score >= threshold, that is 7 * sqrt(shape_sq) >= 10 * threshold -      *)
(* 3 * stats; a NaN score compares False.                                  *)
ScoreAtLeast(score, threshold) ==
    /\ ~ScoreIsNaN(score)
    /\ LET c == RatSub(RatMul(Rat(10, 1), threshold), RatMul(Rat(3, 1), score.stats))
       IN  c.num <= 0 \/ RatLeqWide(Rat(c.num * c.num, 49 * c.den * c.den), score.shape_sq)

(* _generate_description.  One unit of a statistic is ln 2 = 0.69: skew    *)
(* < -0.3 from -1 down and > 0.3 from 1 up, impl_move > 4 from 6 up and    *)
(* < 2 up to 2; comparisons with NaN are False.                            *)
GenerateDescription(hist_data) ==
    LET has(f) == f \in DOMAIN hist_data.stats
        skew == IF has("skewness") THEN hist_data.stats["skewness"] ELSE [v |-> 0, nan |-> FALSE]
        impl_move == IF has("implied_move_pct") THEN hist_data.stats["implied_move_pct"]
                     ELSE [v |-> 0, nan |-> FALSE]
    IN  <<IF ~skew.nan /\ skew.v <= -1 THEN "heavy left tail"
          ELSE IF ~skew.nan /\ skew.v >= 1 THEN "heavy right tail"
          ELSE "symmetric",
          IF ~impl_move.nan /\ impl_move.v >= 6 THEN "high volatility"
          ELSE IF ~impl_move.nan /\ impl_move.v <= 2 THEN "low volatility"
          ELSE "moderate volatility">>
        \o (IF "event" \in DOMAIN hist_data.metadata
            THEN <<hist_data.metadata["event"]>> ELSE <<>>)

(* Mutant: sorted in ascending order (reverse left out).                   *)
RECURSIVE SortBySimilarityAscending(_)
SortBySimilarityAscending(ms) ==
    IF Len(ms) <= 1 THEN ms
    ELSE LET i == CHOOSE a \in 1..Len(ms) :
                      /\ \A b \in 1..Len(ms) : ~ScoreGreater(ms[a].similarity, ms[b].similarity)
                      /\ \A b \in 1..(a - 1) : ScoreGreater(ms[b].similarity, ms[a].similarity)
         IN  <<ms[i]>> \o SortBySimilarityAscending(SubSeq(ms, 1, i - 1)
                                                    \o SubSeq(ms, i + 1, Len(ms)))

(* matches.sort(key=similarity, reverse=True): descending, entries of      *)
(* equal similarity keep their order.                                      *)
RECURSIVE SortBySimilarity(_)
SortBySimilarity(ms) ==
    IF Len(ms) <= 1 THEN ms
    ELSE LET i == CHOOSE a \in 1..Len(ms) :
                      /\ \A b \in 1..Len(ms) : ~ScoreGreater(ms[b].similarity, ms[a].similarity)
                      /\ \A b \in 1..(a - 1) : ScoreGreater(ms[a].similarity, ms[b].similarity)
         IN  <<ms[i]>> \o SortBySimilarity(SubSeq(ms, 1, i - 1) \o SubSeq(ms, i + 1, Len(ms)))

(* find_similar_patterns *)
FindSimilarPatterns(self, current, current_stats, historical_data) ==
    LET scored == [i \in 1..Len(historical_data) |->
                      [stats |-> historical_data[i].stats,
                       metadata |-> historical_data[i].metadata,
                       similarity |-> CalculateSimilarity(current, current_stats,
                                          historical_data[i].density,
                                          historical_data[i].stats),
                       date |-> historical_data[i].date,
                       description |-> GenerateDescription(historical_data[i])]]
        keep(m) == ScoreAtLeast(m.similarity, self.similarity_threshold)
        sorted == SortBySimilarity(SelectSeq(scored, keep))
    IN  SubSeq(sorted, 1, Min(self.max_matches, Len(sorted)))

(* dict.get(key, default) *)
DictGet(d, key, default) == IF key \in DOMAIN d THEN d[key] ELSE default

(* PDFArchive.store_pattern_matches: one PatternMatch row per match, read  *)
(* from the match with dict.get; the commit raises when a column that is   *)
(* not nullable is None, and the session is rolled back.                   *)
StorePatternMatches(current_snapshot_id, ms) ==
    LET rows == [j \in 1..Len(ms) |->
                    [description |-> DictGet(ms[j], "description", None),
                     current_snapshot_id |-> current_snapshot_id,
                     historical_snapshot_id |-> DictGet(ms[j], "id", None),
                     overall_similarity |-> DictGet(ms[j], "similarity", None),
                     shape_similarity |->
                         DictGet(ms[j], "shape_similarity", DictGet(ms[j], "similarity", None)),
                     stats_similarity |->
                         DictGet(ms[j], "stats_similarity", DictGet(ms[j], "similarity", None)),
                     match_rank |-> j]]
        raised == \E j \in 1..Len(rows) :
                      \/ rows[j].historical_snapshot_id = None
                      \/ rows[j].overall_similarity = None
                      \/ rows[j].shape_similarity = None
                      \/ rows[j].stats_similarity = None
    IN  [raised |-> raised, rows |-> rows, table |-> IF raised THEN <<>> ELSE rows]

NoStore == [raised |-> FALSE, rows |-> <<>>, table |-> <<>>]

---------------------------------------------------------------------------
(* calculate_from_options statement by statement, for callers that run it  *)
(* at the same time on extractors of their own.  A caller is               *)
(*   [pc, args, locals, self, result, interleaved]                         *)
(* and a step takes the caller and the module-level names to what they are *)
(* after the statement at pc.                                              *)

ModuleGlobals ==
    [MIN_STRIKES_FOR_PDF |-> MIN_STRIKES_FOR_PDF, PDF_GRID_POINTS |-> GridPoints]

NewExtractor == [pdf |-> None, strikes |-> None, cdf |-> None, spot |-> None, params |-> None]

NoLocals == [pdf |-> None, df |-> None, strike_grid |-> None, vol_model |-> None]

NoResult == [pdf |-> None, strikes |-> None, raised |-> FALSE, error |-> ""]

IdleThread ==
    [pc |-> "idle", self |-> NewExtractor, args |-> None, locals |-> NoLocals,
     result |-> NoResult, interleaved |-> FALSE]

Raise(th, error) ==
    [th EXCEPT !.pc = "done",
               !.result = [pdf |-> None, strikes |-> None, raised |-> TRUE, error |-> error]]

(* Mutant: the strike grid is kept in a module-level name between the      *)
(* statement that builds it and the statements that use it.                *)
ExtractionStepSharedGrid(th, globals) ==
    LET a == th.args[1]
        l == th.locals
    IN  CASE th.pc = "start" ->
                [globals |-> globals,
                 thread |-> [th EXCEPT !.pc = "filter",
                                !.self.spot = Some(a.spot_price),
                                !.self.params = Some([risk_free_rate |-> a.r,
                                                      time_to_expiry |-> a.T,
                                                      option_type |-> a.option_type])]]
          [] th.pc = "filter" ->
                LET df == SortByStrike(FilterRows(a.options_df, a.spot_price))
                IN  [globals |-> globals,
                     thread |-> IF Len(df) < globals.MIN_STRIKES_FOR_PDF
                                THEN Raise(th, "insufficient_data")
                                ELSE [th EXCEPT !.pc = "calibrate", !.locals.df = Some(df)]]
          [] th.pc = "calibrate" ->
                LET cal == CalibrateVolatilitySurface(l.df[1], a.method, a.nm, a.lb)
                IN  [globals |-> globals,
                     thread |-> IF cal.raised
                                THEN Raise(th, cal.error)
                                ELSE [th EXCEPT !.pc = "grid",
                                                !.locals.vol_model = Some(cal.model)]]
          [] th.pc = "grid" ->
                [globals |-> [MIN_STRIKES_FOR_PDF |-> globals.MIN_STRIKES_FOR_PDF,
                              strike_grid |-> Linspace(MinStrike(a.spot_price),
                                                       MaxStrike(a.spot_price),
                                                       globals.PDF_GRID_POINTS),
                              PDF_GRID_POINTS |-> globals.PDF_GRID_POINTS],
                 thread |-> [th EXCEPT !.pc = "density"]]
          [] th.pc = "density" ->
                LET raw == BreedenLitzenberger(globals.strike_grid, Vec(a.prices, 1),
                                               a.r, a.T, a.smoothFails)
                    norm == NormalizePdf(globals.strike_grid, raw)
                IN  [globals |-> globals,
                     thread |-> IF norm.raised
                                THEN Raise(th, "degenerate_density")
                                ELSE [th EXCEPT !.pc = "store",
                                                !.locals.pdf = Some(norm.pdf)]]
          [] th.pc = "store" ->
                [globals |-> globals,
                 thread |-> [th EXCEPT !.pc = "cdf",
                                !.self.strikes = Some(globals.strike_grid),
                                !.self.pdf = l.pdf]]
          [] th.pc = "cdf" ->
                [globals |-> globals,
                 thread |-> [th EXCEPT !.pc = "done",
                                !.self.cdf = Some(CalculateCdf(globals.strike_grid, l.pdf[1])),
                                !.result = [pdf |-> l.pdf, strikes |-> Some(globals.strike_grid),
                                            raised |-> FALSE,
                                            error |-> ""]]]

(* One statement of calculate_from_options: every value it keeps is a      *)
(* local or an attribute of self; the module-level names are read only.    *)
ExtractionStep(th, globals) ==
    LET a == th.args[1]
        l == th.locals
    IN  CASE th.pc = "start" ->
                [globals |-> globals,
                 thread |-> [th EXCEPT !.pc = "filter",
                                !.self.spot = Some(a.spot_price),
                                !.self.params = Some([risk_free_rate |-> a.r,
                                                      time_to_expiry |-> a.T,
                                                      option_type |-> a.option_type])]]
          [] th.pc = "filter" ->
                LET df == SortByStrike(FilterRows(a.options_df, a.spot_price))
                IN  [globals |-> globals,
                     thread |-> IF Len(df) < globals.MIN_STRIKES_FOR_PDF
                                THEN Raise(th, "insufficient_data")
                                ELSE [th EXCEPT !.pc = "calibrate", !.locals.df = Some(df)]]
          [] th.pc = "calibrate" ->
                LET cal == CalibrateVolatilitySurface(l.df[1], a.method, a.nm, a.lb)
                IN  [globals |-> globals,
                     thread |-> IF cal.raised
                                THEN Raise(th, cal.error)
                                ELSE [th EXCEPT !.pc = "grid",
                                                !.locals.vol_model = Some(cal.model)]]
          [] th.pc = "grid" ->
                [globals |-> globals,
                 thread |-> [th EXCEPT !.pc = "density",
                                !.locals.strike_grid =
                                    Some(Linspace(MinStrike(a.spot_price),
                                                  MaxStrike(a.spot_price),
                                                  globals.PDF_GRID_POINTS))]]
          [] th.pc = "density" ->
                LET raw == BreedenLitzenberger(l.strike_grid[1], Vec(a.prices, 1),
                                               a.r, a.T, a.smoothFails)
                    norm == NormalizePdf(l.strike_grid[1], raw)
                IN  [globals |-> globals,
                     thread |-> IF norm.raised
                                THEN Raise(th, "degenerate_density")
                                ELSE [th EXCEPT !.pc = "store",
                                                !.locals.pdf = Some(norm.pdf)]]
          [] th.pc = "store" ->
                [globals |-> globals,
                 thread |-> [th EXCEPT !.pc = "cdf",
                                !.self.strikes = l.strike_grid,
                                !.self.pdf = l.pdf]]
          [] th.pc = "cdf" ->
                [globals |-> globals,
                 thread |-> [th EXCEPT !.pc = "done",
                                !.self.cdf = Some(CalculateCdf(l.strike_grid[1], l.pdf[1])),
                                !.result = [pdf |-> l.pdf, strikes |-> l.strike_grid,
                                            raised |-> FALSE, error |-> ""]]]

(* Arguments the calls are tried on *)

BaseRows == MIN_STRIKES_FOR_PDF - 1

(* good base rows carry a valid implied vol; 0..3 straddles the 3 points   *)
(* SABRModel.calibrate asks for.                                           *)
GoodCounts == 0..3 \cup {BaseRows}

ExtraKinds == <<"low_edge", "high_edge", "below", "above",
                "no_price", "inf_iv", "duplicate">>

(* Row i of the base: strikes min+1 .. min+BaseRows, inside the band.      *)
BaseRow(i, good, spot_price) ==
    [impliedVolatility |-> IF i <= good THEN 20 ELSE 0, strike |-> MinStrike(spot_price) + i,
     price |-> 5]

(* The j-th extra row, of kind k.                                          *)
ExtraRow(k, j, spot_price) ==
    LET fresh == MinStrike(spot_price) + BaseRows + j
        kind == ExtraKinds[k]
    IN  [impliedVolatility |-> IF kind = "inf_iv" THEN Inf ELSE 20,
         strike |-> CASE kind = "low_edge" -> MinStrike(spot_price)
                      [] kind = "high_edge" -> MaxStrike(spot_price)
                      [] kind = "below" -> MinStrike(spot_price) - 1
                      [] kind = "above" -> MaxStrike(spot_price) + 1
                      [] kind = "duplicate" -> MinStrike(spot_price) + 1
                      [] OTHER -> fresh,
         price |-> IF kind = "no_price" THEN 0 ELSE 5]

(* Extras are listed after the base, so the table arrives unsorted.        *)
Table(good, extras, spot_price) ==
    [i \in 1..BaseRows |-> BaseRow(BaseRows + 1 - i, good, spot_price)]
    \o [j \in 1..Len(extras) |-> ExtraRow(extras[j], j, spot_price)]

(* At most MaxExtra extra rows, of different kinds.                        *)
ExtraChoices ==
    {e \in UNION {[1..n -> 1..Len(ExtraKinds)] : n \in 0..MaxExtra} :
        \A j \in 1..(Len(e) - 1) : e[j] < e[j + 1]}

Methods == {"sabr", "spline", "linear"}

(* Grid prices of 0 or 1 tick: every sign pattern of the second           *)
(* derivative occurs.                                                      *)
Curves == [1..GridPoints -> {0, 1}]

Rates == {0, 1}

(* A smile-free, convex price curve: (n-i)^2 *)
ConvexCurve == [i \in 1..GridPoints |-> (GridPoints - i) * (GridPoints - i)]

(* A concave price curve: its second derivative is negative everywhere     *)
ConcaveCurve == [i \in 1..GridPoints |-> GridPoints * GridPoints - i * i]

Conditions == {"below", "above", "between"}

ColumnChoices == {"price", "price_bid_ask", "bid_ask", "price_bid"}

(* The table with the columns chosen: bid 4 and ask 8 added, whose mid 6   *)
(* is not the price 5 of the rows; price dropped.                          *)
WithColumns(df, choice) ==
    [i \in 1..Len(df) |->
        CASE choice = "price" -> df[i]
          [] choice = "price_bid_ask" ->
                [impliedVolatility |-> df[i].impliedVolatility, strike |-> df[i].strike,
                 price |-> df[i].price,
                 bid |-> 4, ask |-> 8]
          [] choice = "price_bid" ->
                [impliedVolatility |-> df[i].impliedVolatility, strike |-> df[i].strike,
                 price |-> df[i].price, bid |-> 4]
          [] choice = "bid_ask" ->
                [impliedVolatility |-> df[i].impliedVolatility,
                 strike |-> df[i].strike,
                 bid |-> 4, ask |-> 8]]

Threads == {1, 2}

(* The calls of the concurrent callers: at every spot, on a table that     *)
(* passes the count check and one that does not, with a curve that gives a *)
(* density and one that gives none.                                        *)
ConcurrentCalls ==
    {[r |-> 0, T |-> 1,
      smoothFails |-> FALSE, nm |-> TRUE, lb |-> TRUE, method |-> method,
      spot_price |-> k * SpotUnit, options_df |-> Table(BaseRows, extras, k * SpotUnit), prices |-> prices, option_type |-> "call"] :
        k \in 1..MaxSpot, extras \in {<<>>, <<1>>}, method \in {"sabr", "spline"},
        prices \in {ConvexCurve, ConcaveCurve}}

Levels == {MinStrike(SpotUnit) - 1, SpotUnit + 1}

(* Quotes handed to the models directly: valid ones at three strikes, and *)
(* one each with a zero strike, a zero and an infinite implied vol.        *)
QuoteKinds ==
    {[impliedVolatility |-> 20, strike |-> k] : k \in {0, 10, 11, 12}}
    \cup {[impliedVolatility |-> 0, strike |-> 10],
          [impliedVolatility |-> Inf, strike |-> 11]}

QuoteLists == UNION {[1..n -> QuoteKinds] : n \in 0..MaxQuotes}

VolGrids == {<<>>, <<10, 11>>}

(* Statistics that are complete, hold a NaN, lack features, are empty.     *)
PairStats ==
    {Stats(Num(-1), Num(1), Num(5)),
     Stats([v |-> 0, nan |-> TRUE], Num(0), Num(5)),
     [skewness |-> Num(1)],
     [skewness |-> Num(2), implied_move_pct |-> Num(20)],
     <<>>}

Thresholds == {Rat(1, 2), PATTERN_SIMILARITY_THRESHOLD, Rat(1, 1)}

MatchLimits == {0, 1, 2}

---------------------------------------------------------------------------
(* The state machine *)

(* What the arguments of a call are, stated on the table itself.           *)
InBand(q, spot_price) ==
    /\ 100 * q.strike >= 80 * spot_price
    /\ 100 * q.strike <= 120 * spot_price
    /\ "price" \in DOMAIN q
    /\ q.price > 0

Survivors(df, spot_price) == {i \in 1..Len(df) : InBand(df[i], spot_price)}

ValidSurvivors(df, spot_price) ==
    {i \in Survivors(df, spot_price) :
        /\ df[i].impliedVolatility > 0
        /\ df[i].impliedVolatility # Inf
        /\ df[i].strike > 0}

Facts(df, spot_price, r, T, method, nm, lb, prices, smoothFails) ==
    [r |-> r,
     T |-> T,
     smoothFails |-> smoothFails,
     nm |-> nm,
     lb |-> lb, valid |-> Cardinality(ValidSurvivors(df, spot_price)), method |-> method,
     spot_price |-> spot_price, prices |-> prices, rows |-> Len(df),
     survivors |-> Cardinality(Survivors(df, spot_price)), distinct |-> Cardinality({df[i].strike : i \in ValidSurvivors(df, spot_price)}),
     columns |-> Columns(df)]

NoInput == [r |-> 0, T |-> 0, smoothFails |-> FALSE, nm |-> TRUE,
            lb |-> TRUE, valid |-> 0, method |-> "",
            spot_price |-> 0, prices |-> <<>>, rows |-> 0,
            survivors |-> 0, distinct |-> 0, columns |-> {}]

Returned(op, res) ==
    [raised |-> res.raised, error |-> res.error, model |-> NoModel, steps |-> <<>>,
     count |-> 0, value |-> res.value, op |-> op]

NoPatternCall(op) ==
    [current |-> 0, hist |-> <<>>, score |-> [stats |-> Rat(0, 1), shape_sq |-> Rat(0, 1)],
     op |-> op,
     shape |-> [sq |-> Rat(0, 1), zero_division |-> FALSE]]

---------------------------------------------------------------------------
(* DataCache (data/cache.py).  Keys and file names are sequences of        *)
(* characters; a file is None when it does not exist.                      *)

CacheTtl == 1

MaxClock == 3

CacheKeys == {<<"a", "/", "b">>, <<"a", "_", "b">>, <<"c">>}

(* What is given to set: two values pickle takes and one it refuses        *)
CacheData ==
    {[value |-> 1, picklable |-> TRUE], [value |-> 2, picklable |-> TRUE],
     [value |-> 0, picklable |-> FALSE]}

(* key.replace('/', '_').replace(':', '_').replace(' ', '_') *)
SafeKey(key) ==
    [i \in 1..Len(key) |-> IF key[i] \in {"/", ":", " "} THEN "_" ELSE key[i]]

(* _get_cache_path: cache_dir / f"{safe_key}.pkl" *)
GetCachePath(key) == SafeKey(key) \o <<".pkl">>

(* _get_metadata_path: cache_dir / f"{safe_key}_meta.json" *)
GetMetadataPath(key) == SafeKey(key) \o <<"_meta.json">>

CachePaths == {GetCachePath(key) : key \in CacheKeys}
                  \cup {GetMetadataPath(key) : key \in CacheKeys}

(* DataCache.get: None unless both files exist; an entry older than ttl    *)
(* is unlinked; a data file pickle cannot load gives None through the      *)
(* except branch.                                                          *)
CacheGet(files, key, now) ==
    LET cache_path == GetCachePath(key)
        meta_path == GetMetadataPath(key)
    IN  IF files[cache_path] = None \/ files[meta_path] = None
        THEN [result |-> None, files |-> files]
        ELSE IF now - files[meta_path][1].timestamp > CacheTtl
        THEN [result |-> None,
              files |-> [files EXCEPT ![cache_path] = None, ![meta_path] = None]]
        ELSE [result |-> files[cache_path][1].pickle, files |-> files]

(* DataCache.set: the data file is opened for writing, which empties it,   *)
(* before pickle.dump; when dump raises the metadata is not written and    *)
(* the error is printed.                                                   *)
CacheSet(files, key, data, now) ==
    LET cache_path == GetCachePath(key)
        meta_path == GetMetadataPath(key)
    IN  IF ~data.picklable
        THEN [files EXCEPT ![cache_path] = Some([pickle |-> None])]
        ELSE [files EXCEPT ![cache_path] = Some([pickle |-> Some(data.value)]),
                           ![meta_path] = Some([key |-> key, timestamp |-> now])]

(* DataCache.clear: the two files of a key, or every file when key is      *)
(* None or empty                                                           *)
CacheClear(files, key) ==
    IF key # None /\ Len(key[1]) > 0
    THEN [files EXCEPT ![GetCachePath(key[1])] = None,
                       ![GetMetadataPath(key[1])] = None]
    ELSE [path \in DOMAIN files |-> None]

NoCacheCall == [key |-> None, result |-> None, op |-> "init", time |-> 0]

---------------------------------------------------------------------------
(* DataManager (data/data_manager.py).  Its DataCache is made with the      *)
(* default directory, the one every DataCache of the program writes to.    *)
(* A call is followed request by request: cache.get when it starts, one    *)
(* client call at a time, cache.set when a client has answered; the clock  *)
(* may move in between.                                                    *)

DATA_SOURCE_PRIORITY == <<"openbb", "yfinance">>

MIN_EXPIRY_DAYS == 7

MAX_EXPIRY_DAYS == 90

(* rate = 0.045, the rate get_risk_free_rate falls back to; rates are      *)
(* counted in thousandths                                                  *)
DefaultRate == 45

Tickers == {"SPY", "QQQ"}

(* force_source: not given, empty, a client, or a name of no client        *)
ForceSources == {None, Some(""), Some("openbb"), Some("yfinance"), Some("csv")}

(* days_to_expiry of the requests to the endpoint *)
DaysRequested == {30}

(* What a client's get_option_expirations returns: dates, each counted in  *)
(* days from today; the dates of the second list are equally far from the  *)
(* target of a request for 30 days.                                        *)
ExpirationLists == {<<>>, <<31, 60>>, <<24, 38>>}

(* f"options_{ticker}_{min_expiry_days}_{max_expiry_days}" *)
OptionsCacheKey(ticker, min_expiry_days, max_expiry_days) ==
    <<"options_", ticker, "_", ToString(min_expiry_days), "_", ToString(max_expiry_days)>>

(* f"spot_{ticker}" *)
SpotCacheKey(ticker) == <<"spot_", ticker>>

(* f"rfr_{days_to_maturity or 'default'}" *)
RateCacheKey(days_to_maturity) ==
    <<"rfr_", IF days_to_maturity = None \/ days_to_maturity[1] = 0 THEN "default"
              ELSE ToString(days_to_maturity[1])>>

(* f"options_exp_{ticker}_{expiration_date}" *)
OptionsByExpirationCacheKey(ticker, expiration_date) ==
    <<"options_exp_", ticker, "_", ToString(expiration_date)>>

(* f"expirations_{ticker}" *)
ExpirationsCacheKey(ticker) == <<"expirations_", ticker>>

(* Strategy 1 of the endpoint (backend/api/main.py): the expiration        *)
(* closest to now + days_to_expiry, the first of the list among the        *)
(* closest, None for an empty list.  The difference of two datetimes is    *)
(* counted in whole days, rounded down: a date e days from today is        *)
(* e - days_to_expiry - 1 days after the target and e - 1 days after now,  *)
(* now being some time into today.                                         *)
RECURSIVE ClosestFrom(_, _, _, _)
ClosestFrom(all_expirations, days_to_expiry, i, closest_exp) ==
    IF i > Len(all_expirations) THEN closest_exp
    ELSE LET diff == Abs(all_expirations[i] - days_to_expiry - 1)
             min_diff == Abs(closest_exp[1] - days_to_expiry - 1)
         IN  ClosestFrom(all_expirations, days_to_expiry, i + 1,
                         IF closest_exp = None \/ diff < min_diff
                         THEN Some(all_expirations[i]) ELSE closest_exp)

ClosestExpiration(all_expirations, days_to_expiry) ==
    ClosestFrom(all_expirations, days_to_expiry, 1, None)

(* actual_dte = (closest_date - datetime.now()).days *)
ActualDte(closest_exp) == closest_exp - 1

(* The expiry windows of the three strategies of the endpoint *)
ExactWindow(actual_dte) == <<Max(1, actual_dte - 2), actual_dte + 2>>

WideWindow(days_to_expiry) == <<Max(1, days_to_expiry - 15), days_to_expiry + 15>>

VeryWideWindow == <<7, 90>>

(* The tickers of the requests to the endpoint *)
RequestTickers == {"SPY"}

(* The windows get_options is called with *)
Windows ==
    {VeryWideWindow}
        \cup {WideWindow(d) : d \in DaysRequested}
        \cup {ExactWindow(ActualDte(ClosestExpiration(l, d)[1])) :
                  l \in ExpirationLists \ {<<>>}, d \in DaysRequested}

(* The dates get_options_by_expiration is called with *)
ExpirationDates == {31}

(* The keys of the manager's calls *)
ManagerKeys ==
    {OptionsCacheKey(t, MIN_EXPIRY_DAYS, MAX_EXPIRY_DAYS) : t \in Tickers}
        \cup {OptionsCacheKey(t, w[1], w[2]) : t \in RequestTickers, w \in Windows}
        \cup {SpotCacheKey(t) : t \in Tickers}
        \cup {ExpirationsCacheKey(t) : t \in Tickers}
        \cup {RateCacheKey(None)}
        \cup {OptionsByExpirationCacheKey(t, e) : t \in Tickers, e \in ExpirationDates}

ManagerPaths ==
    {GetCachePath(key) : key \in ManagerKeys}
        \cup {GetMetadataPath(key) : key \in ManagerKeys}

(* The files of the directory '.cache' *)
DirectoryPaths == CachePaths \cup ManagerPaths

(* DataManager.__init__ *)
NewDataManager(use_cache) == [use_cache |-> use_cache, active_source |-> None]

(* sources: [force_source] when force_source is truthy, a copy of          *)
(* DATA_SOURCE_PRIORITY if not                                             *)
Sources(force_source) ==
    IF force_source # None /\ force_source[1] # ""
    THEN <<force_source[1]>>
    ELSE DATA_SOURCE_PRIORITY

(* The sources of the loop that reach a client: any other name is passed   *)
(* over by 'continue'                                                      *)
ClientSources(sources) ==
    SelectSeq(sources, LAMBDA source : source \in {"openbb", "yfinance"})

NoManagerCall ==
    [raised |-> FALSE, pc |-> "done", result |-> None, op |-> "init",
     ticker |-> "", force_source |-> None, sources |-> <<>>, window |-> <<>>,
     cache_key |-> <<>>, attempts |-> <<>>, hit |-> FALSE]

(* A call of get_options, get_spot_price, get_options_by_expiration or     *)
(* get_expirations up to its first client call: the cached value is        *)
(* returned when cache.get finds one; the call raises RuntimeError when no *)
(* source of the loop has a client.  get_risk_free_rate goes to the FRED   *)
(* client.                                                                 *)
BeginCall(self, files, op, ticker, window, cache_key, force_source, now) ==
    LET looked == IF self.use_cache THEN CacheGet(files, cache_key, now)
                  ELSE [result |-> None, files |-> files]
        sources == IF op = "get_risk_free_rate" THEN <<"fred">>
                   ELSE ClientSources(Sources(force_source))
        call == [raised |-> FALSE, pc |-> "sources", result |-> None, op |-> op,
                 ticker |-> ticker, force_source |-> force_source,
                 sources |-> sources, window |-> window,
                 cache_key |-> cache_key, attempts |-> <<>>, hit |-> FALSE]
    IN  [files |-> looked.files,
         call |-> IF looked.result # None
                  THEN [call EXCEPT !.pc = "done", !.hit = TRUE, !.result = looked.result,
                                    !.sources = <<>>]
                  ELSE IF sources = <<>>
                  THEN [call EXCEPT !.pc = "done", !.raised = TRUE]
                  ELSE call]

(* Mutant: the loop goes on after a client has answered, and the last      *)
(* answer is the one returned.                                             *)
AfterAttemptTryAll(self, call, files, ok, payload, now) ==
    LET source == Head(call.sources)
        rest == Tail(call.sources)
        data == [source |-> source, payload |-> payload]
        attempts == Append(call.attempts, [source |-> source, ok |-> ok])
        answered == IF ok THEN Some(data) ELSE call.result
    IN  IF rest # <<>>
        THEN [self |-> self, files |-> files,
              call |-> [call EXCEPT !.sources = rest, !.attempts = attempts,
                                    !.result = answered]]
        ELSE IF answered = None
        THEN [self |-> self, files |-> files,
              call |-> [call EXCEPT !.pc = "done", !.sources = <<>>,
                                    !.attempts = attempts, !.raised = TRUE]]
        ELSE [self |-> IF call.op = "get_options"
                       THEN [self EXCEPT !.active_source = Some(answered[1].source)]
                       ELSE self,
              files |-> IF self.use_cache
                        THEN CacheSet(files, call.cache_key,
                                      [value |-> answered[1], picklable |-> TRUE], now)
                        ELSE files,
              call |-> [call EXCEPT !.pc = "done", !.sources = <<>>,
                                    !.attempts = attempts, !.result = answered]]

(* The call of the next source's client has ended: it returned payload     *)
(* (ok) or it raised.  An answer is recorded with its source; it is        *)
(* cached when use_cache is on and returned, and get_options sets          *)
(* active_source.  After a failure the loop goes to the next source, and   *)
(* past the last one RuntimeError is raised.  get_risk_free_rate has the   *)
(* default rate for a failure of the FRED client.                          *)
AfterAttempt(self, call, files, ok, payload, now) ==
    LET source == Head(call.sources)
        rest == Tail(call.sources)
        data == [source |-> source,
                 payload |-> IF ok THEN payload ELSE DefaultRate]
        attempts == Append(call.attempts, [source |-> source, ok |-> ok])
    IN  IF ok \/ call.op = "get_risk_free_rate"
        THEN [self |-> IF call.op = "get_options"
                       THEN [self EXCEPT !.active_source = Some(source)]
                       ELSE self,
              files |-> IF self.use_cache
                        THEN CacheSet(files, call.cache_key,
                                      [value |-> data, picklable |-> TRUE], now)
                        ELSE files,
              call |-> [call EXCEPT !.pc = "done", !.sources = <<>>,
                                    !.attempts = attempts, !.result = Some(data)]]
        ELSE IF rest = <<>>
        THEN [self |-> self, files |-> files,
              call |-> [call EXCEPT !.pc = "done", !.sources = <<>>,
                                    !.attempts = attempts, !.raised = TRUE]]
        ELSE [self |-> self, files |-> files,
              call |-> [call EXCEPT !.sources = rest, !.attempts = attempts]]

(* DataManager.clear_cache *)
ManagerClear(self, files, key) ==
    IF self.use_cache THEN CacheClear(files, key) ELSE files

(* The handler between requests; served counts the requests so far.       *)
(* result is what the handler has calculated and interpreter the           *)
(* PDFInterpreter it has made, while it waits for the AI service.          *)
NoAnalysis ==
    [pc |-> "idle", options_df |-> None, result |-> None, risk_free_rate |-> 0,
     interpreter |-> None, request |-> None, served |-> 0]

Init ==
    /\ pdf = None
    /\ strikes = None
    /\ cdf = None
    /\ spot = None
    /\ params = None
    /\ outcome = [raised |-> FALSE, error |-> "", model |-> NoModel, steps |-> <<>>,
                  count |-> 0, value |-> Rat(0, 1), op |-> "init"]
    /\ input = NoInput
    /\ succeeded = FALSE
    /\ market_prices = None
    /\ sabr_model = NewSABRModel
    /\ spline_model = NewSplineModel
    /\ vol_outcome = [raised |-> FALSE, kind |-> "", points |-> 0, valid |-> 0,
                      error |-> "", op |-> "init"]
    /\ completed = {}
    /\ matcher = NewPDFPatternMatcher(PATTERN_SIMILARITY_THRESHOLD, MAX_HISTORICAL_MATCHES)
    /\ corpus = <<>>
    /\ matches = <<>>
    /\ pattern_outcome = NoPatternCall("init")
    /\ pattern_store = NoStore
    /\ threads = [t \in Threads |-> IdleThread]
    /\ module_globals = ModuleGlobals
    /\ calibration = NoCalibrateCall
    /\ smoothing = [pdf |-> None, K |-> <<>>, call_prices |-> <<>>, smoothFails |-> FALSE]
    /\ statistics = [pdf |-> None, strikes |-> <<>>, stats |-> None]
    /\ response = [model |-> NoModel, data |-> None, request |-> None, status |-> 0]
    /\ cache_files = [path \in DirectoryPaths |-> None]
    /\ clock = 0
    /\ cache_calls = [key \in CacheKeys |-> None]
    /\ cache_outcome = NoCacheCall
    /\ manager = NewDataManager(TRUE)
    /\ manager_call = NoManagerCall
    /\ analysis = NoAnalysis

(* calculate_from_options(options_df, spot_price, r, T, option_type,       *)
(* interpolation_method): self.spot and self.params are assigned first;    *)
(* pdf, strikes and cdf only when nothing raised.                          *)
Extract(options_df, spot_price, r, T, option_type, method, nm, lb, prices, smoothFails) ==
    \E res \in {CalculateFromOptions(options_df, spot_price, r, T, method,
                                     nm, lb, prices, smoothFails)} :
        /\ spot' = Some(spot_price)
        /\ params' = Some([risk_free_rate |-> r, time_to_expiry |-> T,
                           option_type |-> option_type])
        /\ IF res.raised
           THEN UNCHANGED <<pdf, strikes, cdf>>
           ELSE /\ strikes' = res.strikes
                /\ pdf' = res.pdf
                /\ cdf' = res.cdf
        /\ outcome' = [raised |-> res.raised, error |-> res.error,
                       model |-> res.model, steps |-> res.steps, count |-> res.count,
                       value |-> Rat(0, 1), op |-> "calculate_from_options"]
        /\ input' = Facts(options_df, spot_price, r, T, method, nm, lb,
                          prices, smoothFails)
        /\ succeeded' = (succeeded \/ ~res.raised)
        /\ market_prices' = MarketPrices(options_df, spot_price)
        /\ UNCHANGED restOfExtractor

(* The optimizers' verdicts and the price curve are drawn only where the   *)
(* call reads them.                                                        *)
RunsOptimizers(rows, method) ==
    /\ method = "sabr"
    /\ Len(rows) >= MIN_STRIKES_FOR_PDF
    /\ ~SABRCalibrate(rows, TRUE, TRUE).raised

PricesGrid(rows, method) ==
    /\ Len(rows) >= MIN_STRIKES_FOR_PDF
    /\ ~CalibrateVolatilitySurface(rows, method, TRUE, TRUE).raised

(* Calls on varied option tables *)
ExtractQuotes ==
    \E good \in GoodCounts, extras \in ExtraChoices, method \in Methods :
    \E df \in {Table(good, extras, SpotUnit)} :
    \E rows \in {FilterRows(df, SpotUnit)} :
    \E opt \in {RunsOptimizers(rows, method)}, grd \in {PricesGrid(rows, method)} :
    \E nm \in (IF opt THEN BOOLEAN ELSE {TRUE}) :
    \E lb \in (IF opt /\ ~nm THEN BOOLEAN ELSE {TRUE}) :
    \E prices \in (IF grd THEN {ConvexCurve, ConcaveCurve} ELSE {ConvexCurve}) :
        Extract(df, SpotUnit, 0, 1, "call", method, nm, lb, prices, FALSE)

(* Calls on varied price curves, from a table that calibrates *)
ExtractCurves ==
    \E prices \in Curves, r \in Rates, smoothFails \in BOOLEAN :
        Extract(Table(BaseRows, <<1>>, SpotUnit), SpotUnit, r, 1, "put", "spline",
                TRUE, TRUE, prices, smoothFails)

(* Calls on tables with and without price, bid and ask columns *)
ExtractColumns ==
    \E choice \in ColumnChoices, extras \in ExtraChoices, method \in {"sabr", "spline"},
       prices \in {ConvexCurve, ConcaveCurve} :
        Extract(WithColumns(Table(BaseRows, extras, SpotUnit), choice), SpotUnit, 0, 1,
                "call", method, TRUE, TRUE, prices, FALSE)

(* Calls at varied spots *)
ExtractSpots ==
    \E k \in 1..MaxSpot, extras \in ExtraChoices, method \in {"sabr", "spline"},
       prices \in {ConvexCurve, ConcaveCurve} :
        Extract(Table(BaseRows, extras, k * SpotUnit), k * SpotUnit, 0, 1, "call",
                method, TRUE, TRUE, prices, FALSE)

QueryProbability ==
    \E strike_level \in Levels, condition \in Conditions :
        /\ outcome' = Returned("get_probability",
                               GetProbability(cdf, strikes, strike_level, condition))
        /\ input' = NoInput
        /\ market_prices' = None
        /\ UNCHANGED <<pdf, strikes, cdf, spot, params, succeeded>>
        /\ UNCHANGED restOfExtractor

QueryProbabilityRange ==
    \E lower_strike \in Levels, upper_strike \in Levels :
        /\ lower_strike < upper_strike
        /\ outcome' = Returned("get_probability_range",
                               GetProbabilityRange(cdf, strikes, lower_strike, upper_strike))
        /\ input' = NoInput
        /\ market_prices' = None
        /\ UNCHANGED <<pdf, strikes, cdf, spot, params, succeeded>>
        /\ UNCHANGED restOfExtractor

(* The number of entries calibrate keeps, stated on the quotes themselves.  *)
ValidQuotes(quotes) ==
    Cardinality({i \in 1..Len(quotes) :
        /\ quotes[i].impliedVolatility > 0
        /\ quotes[i].impliedVolatility # Inf
        /\ quotes[i].strike > 0})

VolReturned(op, kind, res, valid) ==
    [raised |-> res.raised, kind |-> kind, points |-> res.points, valid |-> valid,
     error |-> res.error, op |-> op]

CalibrateSabrModel ==
    \E quotes \in QuoteLists, nm \in BOOLEAN, lb \in BOOLEAN :
    \E res \in {SABRModelCalibrate(sabr_model, quotes, SpotUnit, 1, nm, lb)} :
        /\ sabr_model' = res.self
        /\ vol_outcome' = VolReturned("calibrate", "sabr", res, ValidQuotes(quotes))
        /\ completed' = IF res.raised THEN completed ELSE completed \cup {"sabr"}
        /\ UNCHANGED <<spline_model, restOfVol>>

CalibrateSplineModel ==
    \E quotes \in QuoteLists :
    \E res \in {SplineModelCalibrate(spline_model, quotes)} :
        /\ spline_model' = res.self
        /\ vol_outcome' = VolReturned("calibrate", "spline", res, ValidQuotes(quotes))
        /\ completed' = IF res.raised THEN completed ELSE completed \cup {"spline"}
        /\ UNCHANGED <<sabr_model, restOfVol>>

QuerySabrVolatility ==
    \E grid \in VolGrids :
        /\ vol_outcome' = VolReturned("get_volatility", "sabr",
                                      SABRGetVolatility(sabr_model, grid), 0)
        /\ UNCHANGED <<sabr_model, spline_model, completed, restOfVol>>

QuerySplineVolatility ==
    \E grid \in VolGrids :
        /\ vol_outcome' = VolReturned("get_volatility", "spline",
                                      SplineGetVolatility(spline_model, grid), 0)
        /\ UNCHANGED <<sabr_model, spline_model, completed, restOfVol>>

NextModels ==
    \/ CalibrateSabrModel
    \/ CalibrateSplineModel
    \/ QuerySabrVolatility
    \/ QuerySplineVolatility

(* The corpus grows by one entry, dated by its position.                   *)
StoreEntry ==
    \E k \in 1..Len(EntryKinds) :
        /\ Len(corpus) < MaxCorpus
        /\ corpus' = Append(corpus,
               [stats |-> EntryKinds[k].stats, density |-> EntryKinds[k].density,
                metadata |-> EntryKinds[k].metadata,
                date |-> Len(corpus) + 1, id |-> Len(corpus) + 1])
        /\ matches' = <<>>
        /\ pattern_outcome' = NoPatternCall("store")
        /\ pattern_store' = NoStore
        /\ UNCHANGED <<matcher, restOfPattern>>

(* PDFPatternMatcher(similarity_threshold, max_matches) *)
NewMatcher ==
    \E similarity_threshold \in Thresholds, max_matches \in MatchLimits :
        /\ matcher' = NewPDFPatternMatcher(similarity_threshold, max_matches)
        /\ matches' = <<>>
        /\ pattern_outcome' = NoPatternCall("new")
        /\ pattern_store' = NoStore
        /\ UNCHANGED <<corpus, restOfPattern>>

FindSimilar ==
    \E c \in 1..Len(Currents) :
        /\ matches' = FindSimilarPatterns(matcher, Currents[c].density, Currents[c].stats,
                                          corpus)
        /\ pattern_outcome' = [NoPatternCall("find_similar_patterns") EXCEPT
                                   !.current = c]
        /\ pattern_store' = NoStore
        /\ UNCHANGED <<matcher, corpus, restOfPattern>>

(* store_pattern_matches(current_snapshot_id, matches) on the list the     *)
(* last find_similar_patterns call returned                                *)
StoreMatches ==
    /\ pattern_outcome.op = "find_similar_patterns"
    /\ pattern_store' = StorePatternMatches(pattern_outcome.current, matches)
    /\ UNCHANGED <<matcher, corpus, matches, pattern_outcome, restOfPattern>>

(* _calculate_similarity of a current density and a historical one         *)
ScoreEntry ==
    \E c \in 1..Len(Currents), d \in PairDensities, st \in PairStats :
        /\ pattern_outcome' =
               [current |-> c, hist |-> [stats |-> st, density |-> d],
                score |-> CalculateSimilarity(Currents[c].density, Currents[c].stats,
                                              d, st),
                op |-> "calculate_similarity",
                shape |-> ShapeSimilarityOf(Currents[c].density, d)]
        /\ UNCHANGED <<matcher, corpus, matches, pattern_store, restOfPattern>>

(* calculate_pattern_score: the shape similarity on its own                *)
ScoreShape ==
    \E c \in 1..Len(Currents), d \in PairDensities :
        /\ pattern_outcome' =
               [NoPatternCall("calculate_pattern_score") EXCEPT
                   !.current = c, !.hist = [stats |-> <<>>, density |-> d],
                   !.shape = ShapeSimilarityOf(Currents[c].density, d)]
        /\ UNCHANGED <<matcher, corpus, matches, pattern_store, restOfPattern>>

(* A caller enters calculate_from_options on its own extractor *)
CallExtraction(t) ==
    /\ threads[t].pc = "idle"
    /\ \E a \in ConcurrentCalls :
          threads' = [threads EXCEPT ![t].pc = "start", ![t].args = Some(a)]
    /\ UNCHANGED <<module_globals, restOfConcurrent>>

Running(t) == threads[t].pc \notin {"idle", "done"}

(* A caller executes its next statement *)
StepExtraction(t) ==
    /\ Running(t)
    /\ \E res \in {ExtractionStep(threads[t], module_globals)} :
          /\ threads' = [threads EXCEPT
                            ![t] = [res.thread EXCEPT
                                      !.interleaved = @ \/ \E u \in Threads \ {t} : Running(u)]]
          /\ module_globals' = res.globals
    /\ UNCHANGED restOfConcurrent

NextConcurrent == \E t \in Threads : CallExtraction(t) \/ StepExtraction(t)

(* SABRModel.calibrate is called *)
EnterCalibrate ==
    /\ calibration.pc # "search"
    /\ \E quotes \in QuoteLists : calibration' = BeginCalibrate(quotes)
    /\ UNCHANGED restOfSearch

(* The search that runs does one more iteration, below its cap *)
Iterate ==
    /\ calibration.pc = "search"
    /\ calibration.iterations < calibration.runs[Len(calibration.runs)].maxiter
    /\ calibration' = [calibration EXCEPT !.iterations = @ + 1]
    /\ UNCHANGED restOfSearch

(* The search that runs returns: with either verdict below the cap, with   *)
(* success = False at the cap.                                             *)
EndSearch ==
    /\ calibration.pc = "search"
    /\ \E success \in BOOLEAN :
          /\ calibration.iterations = calibration.runs[Len(calibration.runs)].maxiter
                => ~success
          /\ calibration' = AfterSearch(calibration, success)
    /\ UNCHANGED restOfSearch

NextSearch == EnterCalibrate \/ Iterate \/ EndSearch

(* _breeden_litzenberger on price curves of every length from 2 (the      *)
(* least np.gradient takes) to the grid's, at strikes 1, 2, ...            *)
SmoothCurve ==
    \E n \in 2..GridPoints, smoothFails \in BOOLEAN :
    \E call_prices \in [1..n -> {0, 1}] :
        /\ smoothing' = [pdf |-> Some(BreedenLitzenberger([i \in 1..n |-> i],
                                                          Vec(call_prices, 1), 0, 1,
                                                          smoothFails)), K |-> [i \in 1..n |-> i],
                         call_prices |-> call_prices,
                         smoothFails |-> smoothFails]
        /\ UNCHANGED restOfSmooth

NextSmooth == SmoothCurve

---------------------------------------------------------------------------
(* PDFStatistics: the summary of a density (statistics.py)                 *)

StatPoints == 4

(* The strike grids the summaries are taken on: even and uneven spacing    *)
StatGrids ==
    {[i \in 1..StatPoints |-> 10 + 2 * i],
     [i \in 1..StatPoints |-> 10 + (i * (i - 1)) \div 2]}

(* Mutant: the two ends of the bracketing segment taken the other way      *)
(* round.                                                                  *)
NpInterpAtReversed(x, xp, fp) ==
    LET n == Len(fp)
        AtOrBelow == {i \in 1..n : xp.num[i] * x.den <= x.num * xp.den}
        j == CHOOSE i \in AtOrBelow : \A k \in AtOrBelow : k <= i
        D == x.den * (xp.num[j + 1] - xp.num[j])
    IN  IF AtOrBelow = {} THEN Rat(fp[1], 1)
        ELSE IF j = n THEN Rat(fp[n], 1)
        ELSE IF xp.num[j] * x.den = x.num * xp.den THEN Rat(fp[j], 1)
        ELSE Rat(fp[j + 1] * D
                   + (fp[j] - fp[j + 1]) * (x.num * xp.den - xp.num[j] * x.den), D)

(* np.interp(x, xp, fp) at one point x: fp[0] left of xp, fp[-1] right of  *)
(* it, and between them the line through the segment j, j + 1 with         *)
(* xp[j] <= x < xp[j + 1], the last such j where xp has equal neighbours   *)
NpInterpAt(x, xp, fp) ==
    LET n == Len(fp)
        AtOrBelow == {i \in 1..n : xp.num[i] * x.den <= x.num * xp.den}
        j == CHOOSE i \in AtOrBelow : \A k \in AtOrBelow : k <= i
        D == x.den * (xp.num[j + 1] - xp.num[j])
    IN  IF AtOrBelow = {} THEN Rat(fp[1], 1)
        ELSE IF j = n THEN Rat(fp[n], 1)
        ELSE IF xp.num[j] * x.den = x.num * xp.den THEN Rat(fp[j], 1)
        ELSE Rat(fp[j] * D
                   + (fp[j + 1] - fp[j]) * (x.num * xp.den - xp.num[j] * x.den), D)

(* calculate_percentile(percentile): the CDF by the trapezoid rule,        *)
(* divided by its last value (0 / 0 is NaN), and the strike interpolated   *)
(* at percentile / 100                                                     *)
CalculatePercentile(K, density, percentile) ==
    LET c == CumulativeTrapezoid(density, K)
        n == Len(K)
        percentile_val == Rat(percentile.num, percentile.den * 100)
    IN  IF c.num[n] = 0 THEN [num |-> 0, den |-> 0]
        ELSE NpInterpAt(percentile_val, Vec(c.num, c.num[n]), K)

(* calculate_mean: trapezoid(strikes * pdf, strikes) *)
CalculateMean(K, density) ==
    Trapezoid(Vec([i \in 1..Len(K) |-> K[i] * density.num[i]], density.den), K)

(* calculate_variance: trapezoid((strikes - mean)**2 * pdf, strikes) *)
CalculateVariance(K, density, mean) ==
    Trapezoid(Vec([i \in 1..Len(K) |->
                     (K[i] * mean.den - mean.num) * (K[i] * mean.den - mean.num)
                        * density.num[i]],
                  density.den * mean.den * mean.den), K)

(* np.argmax: the first index of the largest value *)
ArgMax(v) ==
    CHOOSE i \in 1..Len(v) :
        /\ \A k \in 1..Len(v) : v[k] <= v[i]
        /\ \A k \in 1..(i - 1) : v[k] < v[i]

(* _calculate_all_statistics: the entries of the summary that are rational *)
(* in the inputs (std and what is divided by it are square roots)          *)
CalculateAllStatistics(K, density) ==
    [mean        |-> CalculateMean(K, density),
     variance    |-> CalculateVariance(K, density, CalculateMean(K, density)),
     median      |-> CalculatePercentile(K, density, Rat(50, 1)),
     mode        |-> K[ArgMax(density.num)],
     ci_95_lower |-> CalculatePercentile(K, density, Rat(25, 10)),
     ci_95_upper |-> CalculatePercentile(K, density, Rat(975, 10)),
     ci_68_lower |-> CalculatePercentile(K, density, Rat(16, 1)),
     ci_68_upper |-> CalculatePercentile(K, density, Rat(84, 1))]

(* PDFStatistics(strikes, pdf, spot_price, time_to_expiry): the fields are *)
(* assigned once, by the constructor                                       *)
NewPDFStatistics ==
    \E K \in StatGrids :
    \E density \in [1..StatPoints -> 0..2] :
        /\ statistics.pdf = None
        /\ statistics' = [pdf |-> Some(Vec(density, 1)), strikes |-> K,
                          stats |-> Some(CalculateAllStatistics(K, Vec(density, 1)))]
        /\ UNCHANGED restOfStat

NextStatistics == NewPDFStatistics

---------------------------------------------------------------------------
(* POST /api/analyze (backend/api/main.py).  The endpoint makes a          *)
(* DataManager of its own and blocks on each of its calls; the handler is  *)
(* followed call by call.                                                  *)

(* len(options_df) < 20: the contracts below which the next strategy is    *)
(* tried                                                                   *)
MinContracts == 20

(* A table a client's get_spy_options returns, kept by what it is made of: *)
(* calls call rows at the strikes next to SpotUnit on both sides, the      *)
(* first good of them with a finite implied vol, and puts put rows at      *)
(* SpotUnit, all of one expiration; bid and ask are columns of it or not.  *)
(* Both clients select on lastPrice and impliedVolatility, so these are    *)
(* columns of every table; the OpenBB client passes the provider's other   *)
(* columns on, underlying_price among them.                                *)
Chain(calls, good, puts, quotes, underlying, expiration) ==
    [quotes |-> quotes, good |-> good, calls |-> calls, puts |-> puts,
     underlying |-> underlying, expiration |-> expiration]

ChainColumns(chain) ==
    {"strike", "impliedVolatility", "optionType", "expiration", "lastPrice"}
        \cup (IF chain.quotes = "bid_ask" THEN {"bid", "ask"} ELSE {})
        \cup (IF chain.underlying # None THEN {"underlying_price"} ELSE {})

ChainRow(chain, option_type, strike, implied_volatility) ==
    [c \in ChainColumns(chain) |->
        CASE c = "strike" -> strike
          [] c = "impliedVolatility" -> implied_volatility
          [] c = "optionType" -> option_type
          [] c = "expiration" -> chain.expiration
          [] c = "lastPrice" -> 5
          [] c = "bid" -> 4
          [] c = "ask" -> 8
          [] c = "underlying_price" -> chain.underlying[1]]

(* The rows in the order of the clients' sort_values(['expiration',        *)
(* 'strike']): the calls below SpotUnit, the puts, the calls above.        *)
ChainTable(chain) ==
    LET below == chain.calls \div 2
        above == chain.calls - below
        vol(k) == IF k <= chain.good THEN 20 ELSE Inf
    IN  [i \in 1..below |-> ChainRow(chain, "call", SpotUnit - below - 1 + i, vol(i))]
        \o [i \in 1..chain.puts |-> ChainRow(chain, "put", SpotUnit, 20)]
        \o [i \in 1..above |-> ChainRow(chain, "call", SpotUnit + i, vol(below + i))]

(* What get_spy_options of a client returns for an expiry window: tables   *)
(* of an expiration in the middle of the window, days_to_expiry days and   *)
(* a part of a day from now.  yfinance: 21 contracts, 10 of them calls;    *)
(* the same with 9 calls; 19 contracts.  The OpenBB client, which keeps an *)
(* infinite implied vol and returns a table without rows when no row is    *)
(* in the window: 21 contracts with last prices only; 10 calls of which 2  *)
(* have a finite implied vol; the underlying price as a column; puts       *)
(* only; no rows.                                                          *)
ClientTables(source, window) ==
    LET expiration == (window[1] + window[2]) \div 2 + 1
    IN  IF source = "openbb"
        THEN {Chain(10, 10, 11, "last", None, expiration),
              Chain(10, 2, 11, "bid_ask", None, expiration),
              Chain(10, 10, 11, "bid_ask", Some(SpotUnit), expiration),
              Chain(0, 0, 20, "bid_ask", None, expiration),
              Chain(0, 0, 0, "bid_ask", None, expiration)}
        ELSE {Chain(10, 10, 11, "bid_ask", None, expiration),
              Chain(9, 9, 11, "bid_ask", None, expiration),
              Chain(10, 10, 9, "bid_ask", None, expiration)}

(* What get_option_expirations of a client returns.  The lists tried are   *)
(* divided between the clients: the list that starts before the target of  *)
(* the request is an answer of OpenBB; the list that starts after it and   *)
(* the empty one, of a ticker without options, are answers of yfinance.    *)
ClientExpirations(source) ==
    IF source = "openbb" THEN {l \in ExpirationLists : l # <<>> /\ l[1] < 30}
    ELSE {l \in ExpirationLists : l = <<>> \/ l[1] > 30}

(* What get_spot_price of a client returns: the spot the tables are        *)
(* around; yfinance has 0 when the quote carries no price.                 *)
SpotQuotes(source) ==
    IF source = "openbb" THEN {SpotUnit} ELSE {SpotUnit, 0}

(* What the FRED client's get_risk_free_rate returns, in thousandths *)
FredRates == {50}

(* What the client called answers to a call of the manager.  The endpoint  *)
(* reads the answer; of the answers to a call made on a manager directly   *)
(* one stands for all.                                                     *)
Payloads(call, requested) ==
    LET source == Head(call.sources)
    IN  CASE call.op = "get_options" ->
                IF requested THEN ClientTables(source, call.window)
                ELSE {Chain(10, 10, 11, "bid_ask", None, MIN_EXPIRY_DAYS + 1)}
          [] call.op = "get_options_by_expiration" ->
                {Chain(10, 10, 11, "bid_ask", None, call.window[1])}
          [] call.op = "get_expirations" ->
                IF requested THEN ClientExpirations(source) ELSE {<<31, 60>>}
          [] call.op = "get_spot_price" ->
                IF requested THEN SpotQuotes(source) ELSE {SpotUnit}
          [] call.op = "get_risk_free_rate" -> FredRates

(* df.rename(columns={old: new}) *)
RenameColumn(df, old, new) ==
    [i \in 1..Len(df) |->
        [c \in (DOMAIN df[i] \ {old}) \cup {new} |->
            IF c = new THEN df[i][old] ELSE df[i][c]]]

(* Standardize column names: option_type and implied_volatility are       *)
(* renamed when the table has no optionType, no impliedVolatility          *)
StandardizeColumns(options_df) ==
    LET typed == IF "optionType" \notin Columns(options_df)
                    /\ "option_type" \in Columns(options_df)
                 THEN RenameColumn(options_df, "option_type", "optionType")
                 ELSE options_df
    IN  IF "impliedVolatility" \notin Columns(typed)
           /\ "implied_volatility" \in Columns(typed)
        THEN RenameColumn(typed, "implied_volatility", "impliedVolatility")
        ELSE typed

(* options_df['strike'].median(): the middle strike, or the mean of the    *)
(* two middle ones, which is a whole number on the tables tried            *)
MedianStrike(options_df) ==
    LET sorted == SortByStrike(options_df)
        n == Len(sorted)
    IN  IF n % 2 = 1 THEN sorted[(n + 1) \div 2].strike
        ELSE (sorted[n \div 2].strike + sorted[n \div 2 + 1].strike) \div 2

(* pdf_input: strike and impliedVolatility of the calls, with the price    *)
(* (bid + ask) / 2 when both are columns, lastPrice if not.  The           *)
(* Black-Scholes branch needs a table without lastPrice, which no client   *)
(* returns.  The quotes tried have an even sum.                            *)
PdfInput(calls) ==
    [i \in 1..Len(calls) |->
        [impliedVolatility |-> calls[i].impliedVolatility, strike |-> calls[i].strike,
         price |-> IF {"bid", "ask"} \subseteq Columns(calls)
                   THEN (calls[i].bid + calls[i].ask) \div 2
                   ELSE calls[i].lastPrice]]

(* stats_calc.get_summary() read with the keys the response asks for:      *)
(* 'mean' is a key of the summary; 'std_dev', 'kurtosis', 'ci_lower',      *)
(* 'ci_upper', 'tail_prob_down_10pct' and 'tail_prob_up_10pct' are not,    *)
(* and get's default 0 is reported.                                        *)
ResponseStatistics(K, density) ==
    [mean |-> CalculateMean(K, density),
     std_dev |-> Rat(0, 1), kurtosis |-> Rat(0, 1),
     ci_lower |-> Rat(0, 1), ci_upper |-> Rat(0, 1),
     tail_prob_down_10pct |-> Rat(0, 1), tail_prob_up_10pct |-> Rat(0, 1)]

(* raise HTTPException(status_code=status) *)
HttpError(status) == [model |-> NoModel, data |-> None, status |-> status]

(* The errors of calculate_from_options that are a ValueError; a column    *)
(* that is missing is a KeyError                                           *)
IsValueError(error) == error # "missing_column"

(* analyze_options from 'Standardize column names' on.  A column read      *)
(* that the table does not have is a KeyError, answered with 500 like any  *)
(* exception but HTTPException; a table without calls is answered with     *)
(* 404, a ValueError of calculate_from_options with 400.  days_to_exp is   *)
(* the whole days from now to the expiration of the first call, T its      *)
(* 365th part.  The density returned is the normalised one, in which the   *)
(* factor e^(rT) of Breeden-Litzenberger cancels: it is computed at        *)
(* r = 0, and the rate and T of the request are reported.  model is the    *)
(* volatility model calculate_from_options built its density from.         *)
AnalyzeOptions(request, options_df, risk_free_rate, spot_price, nm, lb, prices) ==
    LET standardized == StandardizeColumns(options_df)
        calls == SelectSeq(standardized, LAMBDA q : q.optionType = "call")
        days_to_exp == calls[1].expiration - 1
        pdf_input == PdfInput(calls)
        interpolation_method == IF request.use_sabr THEN "sabr" ELSE "spline"
        res == CalculateFromOptions(pdf_input, spot_price, 0, 0, interpolation_method,
                                    nm, lb, prices, FALSE)
    IN  IF "optionType" \notin Columns(standardized)
        THEN HttpError(500)
        ELSE IF calls = <<>>
        THEN HttpError(404)
        ELSE IF ~({"expiration", "strike", "impliedVolatility"} \subseteq Columns(calls))
        THEN HttpError(500)
        ELSE IF res.raised
        THEN [model |-> res.model, data |-> None,
              status |-> IF IsValueError(res.error) THEN 400 ELSE 500]
        ELSE [model |-> res.model,
              data |-> Some([pdf |-> [strikes |-> res.strikes[1], values |-> res.pdf[1]], statistics |-> ResponseStatistics(res.strikes[1], res.pdf[1]),
                             spot_price |-> spot_price,
                             risk_free_rate |-> risk_free_rate,
                             time_to_expiry |-> Rat(days_to_exp, 365),
                             days_to_expiry |-> days_to_exp,
                             interpolation_method |-> interpolation_method]),
              status |-> 200]

(* PDFInterpreter.__init__ (ai/interpreter.py): the client is Groq when an *)
(* API key is set, Ollama when its server lists the model, and none if     *)
(* neither.                                                                *)
NewPDFInterpreter(groq_key, ollama_available) ==
    [client_name |-> IF groq_key THEN "Groq"
                     ELSE IF ollama_available THEN "Ollama" ELSE "None"]

(* interpret_single_pdf, by the 'interpretation' it returns: the text of   *)
(* the client when generate returned, the text of                          *)
(* _fallback_interpretation when it raised or there is no client.  It      *)
(* returns in every case.                                                  *)
InterpretSinglePdf(self, generated) ==
    IF self.client_name # "None" /\ generated THEN "generated" ELSE "fallback"

(* response_data with "interpretation": interp_result.get('interpretation', '') *)
WithInterpretation(res, interpretation) ==
    [model |-> res.model,
     data |-> Some([f \in DOMAIN res.data[1] \cup {"interpretation"} |->
                       IF f = "interpretation" THEN interpretation ELSE res.data[1][f]]),
     status |-> res.status]

(* The handler does not wait for its manager: it is between requests or    *)
(* waits for the AI service                                                *)
ManagerFree == analysis.pc \in {"idle", "tags", "generate"}

(* The handler calls a method of its manager and blocks on it *)
EndpointCalls(self, op, window, cache_key, pc, options_df, risk_free_rate) ==
    \E began \in {BeginCall(self, cache_files, op, analysis.request[1].ticker, window,
                            cache_key, None, clock)} :
        /\ manager' = self
        /\ manager_call' = began.call
        /\ cache_files' = began.files
        /\ analysis' = [analysis EXCEPT !.pc = pc, !.options_df = options_df,
                                        !.risk_free_rate = risk_free_rate]
        /\ UNCHANGED response

(* The handler raises HTTPException or returns *)
EndpointAnswers(res) ==
    /\ response' = [model |-> res.model, data |-> res.data, request |-> analysis.request,
                    status |-> res.status]
    /\ analysis' = [NoAnalysis EXCEPT !.served = analysis.served]
    /\ UNCHANGED <<manager, manager_call, cache_files>>

(* The handler from 'Standardize column names' to PDFInterpreter(), with   *)
(* the spot it has found.  The optimizers' verdicts and the price curve    *)
(* are drawn only where calculate_from_options reads them.  An             *)
(* HTTPException is answered at once.  With the density and the statistics *)
(* calculated, the interpreter is made: with a Groq API key its client is  *)
(* Groq, interpret_single_pdf posts to it and the handler waits for the    *)
(* completion; without one the handler waits for the tags of the Ollama    *)
(* server.                                                                 *)
EndpointCalculates(options_df, risk_free_rate, spot_price) ==
    \E request \in {analysis.request[1]} :
    \E calls \in {SelectSeq(options_df, LAMBDA q : q.optionType = "call")} :
    \E rows \in {FilterRows(PdfInput(calls), spot_price)} :
    \E method \in {IF request.use_sabr THEN "sabr" ELSE "spline"} :
    \E opt \in {RunsOptimizers(rows, method)}, grd \in {PricesGrid(rows, method)} :
    \E nm \in (IF opt THEN BOOLEAN ELSE {TRUE}) :
    \E lb \in (IF opt /\ ~nm THEN BOOLEAN ELSE {TRUE}) :
    \E prices \in (IF grd THEN {ConvexCurve, ConcaveCurve} ELSE {ConvexCurve}) :
    \E res \in {AnalyzeOptions(request, options_df, risk_free_rate, spot_price,
                               nm, lb, prices)} :
        IF res.status # 200
        THEN EndpointAnswers(res)
        ELSE \E groq_key \in BOOLEAN :
                 /\ analysis' = [analysis EXCEPT
                                     !.pc = IF groq_key THEN "generate" ELSE "tags",
                                     !.interpreter =
                                         IF groq_key
                                         THEN Some(NewPDFInterpreter(TRUE, FALSE))
                                         ELSE None,
                                     !.result = Some(res),
                                     !.risk_free_rate = risk_free_rate]
                 /\ UNCHANGED <<response, manager, manager_call, cache_files>>

(* A request arrives: data_manager = DataManager(), whose FRED client      *)
(* raises when no API key is configured, and strategy 1 starts with        *)
(* get_expirations.                                                        *)
StartAnalyze ==
    \E ticker \in RequestTickers, days_to_expiry \in DaysRequested,
       use_sabr \in BOOLEAN, configured \in BOOLEAN :
    \E request \in {[ticker |-> ticker, days_to_expiry |-> days_to_expiry,
                     use_sabr |-> use_sabr]} :
        /\ analysis.pc = "idle"
        /\ analysis.served < MaxRequests
        /\ manager_call.pc = "done"
        /\ IF configured
           THEN \E began \in {BeginCall(NewDataManager(TRUE), cache_files,
                                        "get_expirations", ticker, <<>>,
                                        ExpirationsCacheKey(ticker), None, clock)} :
                    /\ manager' = NewDataManager(TRUE)
                    /\ manager_call' = began.call
                    /\ cache_files' = began.files
                    /\ analysis' = [NoAnalysis EXCEPT !.pc = "expirations",
                                                      !.request = Some(request),
                                                      !.served = analysis.served + 1]
                    /\ UNCHANGED response
           ELSE /\ response' = [model |-> NoModel, data |-> None, request |-> Some(request),
                                status |-> 500]
                /\ analysis' = [analysis EXCEPT !.served = analysis.served + 1]
                /\ UNCHANGED <<manager, manager_call, cache_files>>
        /\ UNCHANGED <<clock, cache_calls, cache_outcome>>
        /\ UNCHANGED restOfData

(* Strategy 1 after get_expirations: get_options on the days around the    *)
(* closest expiration; strategy 2 when the call raised or the list is      *)
(* empty.                                                                  *)
AfterExpirations ==
    /\ analysis.pc = "expirations"
    /\ manager_call.pc = "done"
    /\ LET request == analysis.request[1]
           closest_exp == IF manager_call.raised THEN None
                          ELSE ClosestExpiration(manager_call.result[1].payload,
                                                 request.days_to_expiry)
           window == IF closest_exp # None THEN ExactWindow(ActualDte(closest_exp[1]))
                     ELSE WideWindow(request.days_to_expiry)
       IN  EndpointCalls(manager, "get_options", window,
                         OptionsCacheKey(request.ticker, window[1], window[2]),
                         IF closest_exp # None THEN "exact" ELSE "wide", None, 0)
    /\ UNCHANGED <<clock, cache_calls, cache_outcome>>
    /\ UNCHANGED restOfData

(* A get_options of one of the three strategies has ended: options_df is   *)
(* what it returned, and what it was when the call raised.  The next       *)
(* strategy is tried on no table and on one of fewer than 20 contracts;    *)
(* after the last, no table or an empty one is answered with 404, and      *)
(* get_risk_free_rate is called if there is one.                           *)
AfterOptions ==
    /\ analysis.pc \in {"exact", "wide", "very_wide"}
    /\ manager_call.pc = "done"
    /\ LET request == analysis.request[1]
           options_df == IF manager_call.raised THEN analysis.options_df
                         ELSE Some(manager_call.result[1].payload)
           short == options_df = None \/ Len(ChainTable(options_df[1])) < MinContracts
           window == IF analysis.pc = "exact" THEN WideWindow(request.days_to_expiry)
                     ELSE VeryWideWindow
       IN  IF short /\ analysis.pc # "very_wide"
           THEN EndpointCalls(manager, "get_options", window,
                              OptionsCacheKey(request.ticker, window[1], window[2]),
                              IF analysis.pc = "exact" THEN "wide" ELSE "very_wide",
                              options_df, 0)
           ELSE IF options_df = None \/ Len(ChainTable(options_df[1])) = 0
           THEN EndpointAnswers(HttpError(404))
           ELSE EndpointCalls(manager, "get_risk_free_rate", <<>>, RateCacheKey(None),
                              "rate", options_df, 0)
    /\ UNCHANGED <<clock, cache_calls, cache_outcome>>
    /\ UNCHANGED restOfData

(* get_risk_free_rate has returned.  The spot is the underlying_price of   *)
(* the first row when the table has that column, and the handler goes on   *)
(* to calculate, up to its wait for the AI service; get_spot_price is      *)
(* called when the table has no such column.                               *)
AfterRate ==
    /\ analysis.pc = "rate"
    /\ manager_call.pc = "done"
    /\ LET options_df == ChainTable(analysis.options_df[1])
           risk_free_rate == manager_call.result[1].payload
       IN  IF "underlying_price" \in Columns(options_df)
           THEN EndpointCalculates(options_df, risk_free_rate,
                                   options_df[1].underlying_price)
           ELSE EndpointCalls(manager, "get_spot_price", <<>>,
                              SpotCacheKey(analysis.request[1].ticker), "spot",
                              analysis.options_df, risk_free_rate)
    /\ UNCHANGED <<clock, cache_calls, cache_outcome>>
    /\ UNCHANGED restOfData

(* get_spot_price has ended: the spot is what it returned, and the median  *)
(* strike of the table when it raised.  The handler goes on to calculate,  *)
(* up to its wait for the AI service.                                      *)
AfterSpot ==
    /\ analysis.pc = "spot"
    /\ manager_call.pc = "done"
    /\ LET options_df == ChainTable(analysis.options_df[1])
       IN  EndpointCalculates(options_df, analysis.risk_free_rate,
                              IF manager_call.raised THEN MedianStrike(options_df)
                              ELSE manager_call.result[1].payload)
    /\ UNCHANGED <<clock, cache_calls, cache_outcome>>
    /\ UNCHANGED restOfData

(* OllamaClient.is_available has ended: the server listed the model, or it *)
(* did not, answered with another status or the request failed.  With      *)
(* Ollama as the client interpret_single_pdf posts to it and the handler   *)
(* waits for the completion; with no client it has the fallback text and   *)
(* the handler answers.                                                    *)
OllamaTagsAnswer ==
    /\ analysis.pc = "tags"
    /\ \E available \in BOOLEAN :
       \E interpreter \in {NewPDFInterpreter(FALSE, available)} :
           IF available
           THEN /\ analysis' = [analysis EXCEPT !.pc = "generate",
                                                !.interpreter = Some(interpreter)]
                /\ UNCHANGED <<response, manager, manager_call, cache_files>>
           ELSE EndpointAnswers(WithInterpretation(analysis.result[1],
                                    InterpretSinglePdf(interpreter, FALSE)))
    /\ UNCHANGED <<clock, cache_calls, cache_outcome>>
    /\ UNCHANGED restOfData

(* The request of client.generate has ended: it returned a completion, or  *)
(* it timed out or failed.  interpret_single_pdf returns and the handler   *)
(* answers.                                                                *)
GenerateAnswers ==
    /\ analysis.pc = "generate"
    /\ \E generated \in BOOLEAN :
           EndpointAnswers(WithInterpretation(analysis.result[1],
                               InterpretSinglePdf(analysis.interpreter[1], generated)))
    /\ UNCHANGED <<clock, cache_calls, cache_outcome>>
    /\ UNCHANGED restOfData

CallCacheSet ==
    \E key \in CacheKeys, data \in CacheData :
        /\ cache_files' = CacheSet(cache_files, key, data, clock)
        /\ cache_calls' = [cache_calls EXCEPT ![key] = Some([data |-> data, time |-> clock])]
        /\ cache_outcome' = [key |-> Some(key), result |-> None, op |-> "set",
                             time |-> clock]
        /\ UNCHANGED <<clock, manager, manager_call, response, analysis>>
        /\ UNCHANGED restOfData

CallCacheGet ==
    \E key \in CacheKeys :
    \E res \in {CacheGet(cache_files, key, clock)} :
        /\ cache_files' = res.files
        /\ cache_outcome' = [key |-> Some(key), result |-> res.result, op |-> "get",
                             time |-> clock]
        /\ UNCHANGED <<clock, cache_calls, manager, manager_call, response, analysis>>
        /\ UNCHANGED restOfData

(* cache.clear_cache(key) of the module: the global cache's clear, on the  *)
(* directory the manager's cache writes to as well                         *)
CallCacheClear ==
    \E key \in {None} \cup {Some(k) : k \in CacheKeys} :
        /\ cache_files' = CacheClear(cache_files, key)
        /\ cache_calls' = [k \in CacheKeys |->
                              IF key = None \/ key = Some(k) THEN None ELSE cache_calls[k]]
        /\ cache_outcome' = [key |-> key, result |-> None, op |-> "clear",
                             time |-> clock]
        /\ UNCHANGED <<clock, manager, manager_call, response, analysis>>
        /\ UNCHANGED restOfData

(* A minute passes *)
Tick ==
    /\ clock < MaxClock
    /\ clock' = clock + 1
    /\ UNCHANGED <<cache_files, cache_calls, cache_outcome, manager, manager_call,
                   response, analysis>>
    /\ UNCHANGED restOfData

NextCache == CallCacheSet \/ CallCacheGet \/ CallCacheClear \/ Tick

(* DataManager(use_cache), when no call is under way *)
CreateManager ==
    \E use_cache \in BOOLEAN :
        /\ ManagerFree
        /\ manager_call.pc = "done"
        /\ manager' = NewDataManager(use_cache)
        /\ manager_call' = NoManagerCall
        /\ UNCHANGED <<cache_files, clock, cache_calls, cache_outcome, response, analysis>>
        /\ UNCHANGED restOfData

(* A method of the manager is called directly *)
ManagerCalls(op, ticker, window, cache_key, force_source) ==
    \E began \in {BeginCall(manager, cache_files, op, ticker, window, cache_key,
                            force_source, clock)} :
        /\ ManagerFree
        /\ manager_call.pc = "done"
        /\ manager_call' = began.call
        /\ cache_files' = began.files
        /\ UNCHANGED <<manager, clock, cache_calls, cache_outcome, response, analysis>>
        /\ UNCHANGED restOfData

CallGetOptions ==
    \E ticker \in Tickers, force_source \in ForceSources :
        ManagerCalls("get_options", ticker, <<MIN_EXPIRY_DAYS, MAX_EXPIRY_DAYS>>,
                     OptionsCacheKey(ticker, MIN_EXPIRY_DAYS, MAX_EXPIRY_DAYS),
                     force_source)

CallGetSpotPrice ==
    \E ticker \in Tickers, force_source \in ForceSources :
        ManagerCalls("get_spot_price", ticker, <<>>, SpotCacheKey(ticker), force_source)

CallGetRiskFreeRate ==
    ManagerCalls("get_risk_free_rate", "", <<>>, RateCacheKey(None), None)

CallGetOptionsByExpiration ==
    \E ticker \in Tickers, expiration_date \in ExpirationDates,
       force_source \in ForceSources :
        ManagerCalls("get_options_by_expiration", ticker, <<expiration_date>>,
                     OptionsByExpirationCacheKey(ticker, expiration_date), force_source)

CallGetExpirations ==
    \E ticker \in Tickers, force_source \in ForceSources :
        ManagerCalls("get_expirations", ticker, <<>>, ExpirationsCacheKey(ticker),
                     force_source)

(* The client call a call of the manager waits for ends: it returns or it  *)
(* raises.                                                                 *)
ClientAnswers ==
    /\ manager_call.pc = "sources"
    /\ \E ok \in BOOLEAN :
       \E payload \in (IF ok THEN Payloads(manager_call, ~ManagerFree) ELSE {0}) :
       \E after \in {AfterAttempt(manager, manager_call, cache_files, ok, payload, clock)} :
           /\ manager' = after.self
           /\ manager_call' = after.call
           /\ cache_files' = after.files
    /\ UNCHANGED <<clock, cache_calls, cache_outcome, response, analysis>>
    /\ UNCHANGED restOfData

(* manager.clear_cache(key): of one of the manager's keys, or of the whole *)
(* directory                                                               *)
CallClearCache ==
    \E key \in {None} \cup {Some(k) : k \in ManagerKeys} :
        /\ cache_files' = ManagerClear(manager, cache_files, key)
        /\ cache_calls' = [k \in CacheKeys |->
                              IF key = None /\ manager.use_cache THEN None
                              ELSE cache_calls[k]]
        /\ UNCHANGED <<clock, cache_outcome, manager, manager_call, response, analysis>>
        /\ UNCHANGED restOfData

NextManager ==
    \/ CreateManager \/ CallGetOptions \/ ClientAnswers \/ CallClearCache \/ Tick

NextApi ==
    \/ StartAnalyze \/ AfterExpirations \/ AfterOptions \/ AfterRate \/ AfterSpot
    \/ OllamaTagsAnswer \/ GenerateAnswers \/ ClientAnswers

NextPatterns == NewMatcher \/ StoreEntry \/ FindSimilar \/ StoreMatches

NextScores == ScoreEntry \/ ScoreShape

NextQuotes == ExtractQuotes \/ QueryProbability \/ QueryProbabilityRange

NextCurves == ExtractCurves \/ QueryProbability \/ QueryProbabilityRange

NextColumns == ExtractColumns \/ QueryProbability \/ QueryProbabilityRange

NextSpots == ExtractSpots \/ QueryProbability \/ QueryProbabilityRange

Next ==
    \/ ExtractQuotes \/ ExtractCurves \/ ExtractSpots \/ ExtractColumns
    \/ QueryProbability \/ QueryProbabilityRange
    \/ NextModels
    \/ NextPatterns
    \/ NextScores
    \/ NextConcurrent
    \/ NextSearch
    \/ NextSmooth
    \/ NextStatistics
    \/ NextApi
    \/ NextCache
    \/ NextManager
    \/ CallGetSpotPrice \/ CallGetRiskFreeRate \/ CallGetOptionsByExpiration
    \/ CallGetExpirations

(* Calls on every option table, with two price curves *)
SpecQuotes == Init /\ [][NextQuotes]_vars

(* Calls on every price curve, with one option table *)
SpecCurves == Init /\ [][NextCurves]_vars

(* Calls on tables of every choice of columns *)
SpecColumns == Init /\ [][NextColumns]_vars

(* Calls at every spot *)
SpecSpots == Init /\ [][NextSpots]_vars

(* Calls on the two volatility models *)
SpecModels == Init /\ [][NextModels]_vars

(* Calls on the pattern matcher, over a growing corpus *)
SpecPatterns == Init /\ [][NextPatterns]_vars

(* The similarity of pairs of densities and statistics *)
SpecScores == Init /\ [][NextScores]_vars

(* Two callers, each on its own extractor, their statements interleaved *)
SpecConcurrent == Init /\ [][NextConcurrent]_vars

(* A calibrate call search by search; the call keeps running until it     *)
(* returns.                                                                *)
SpecSearch == Init /\ [][NextSearch]_vars /\ WF_vars(Iterate \/ EndSearch)

(* The density of price curves of every length *)
SpecSmooth == Init /\ [][NextSmooth]_vars

(* The summaries of every density on the grids *)
SpecStatistics == Init /\ [][NextStatistics]_vars

(* The analyze endpoint on every call table *)
SpecApi == Init /\ [][NextApi]_vars

(* Every sequence of set, get and clear as the minutes pass *)
SpecCache == Init /\ [][NextCache]_vars

(* get_options with and without a cache as the minutes pass *)
SpecManager == Init /\ [][NextManager]_vars

Spec == Init /\ [][Next]_vars

---------------------------------------------------------------------------
(* Properties *)

WasExtract == outcome.op = "calculate_from_options"

WasQuery == outcome.op \in {"get_probability", "get_probability_range"}

(* The clipped and smoothed curve of the last call, before normalization.  *)
GridOf(spot_price) == Linspace(MinStrike(spot_price), MaxStrike(spot_price), GridPoints)

LastCurve ==
    BreedenLitzenberger(GridOf(input.spot_price), Vec(input.prices, 1),
                        input.r, input.T, input.smoothFails)

LastMass == Trapezoid(LastCurve, GridOf(input.spot_price))

(* e^(rT) times the second derivative of the last call's price curve.      *)
LastSecondDerivative ==
    LET K == GridOf(input.spot_price)
    IN  Gradient(Gradient(Vec(input.prices, 1), K), K)

(* The last call got as far as pricing the grid.                           *)
Calibrated ==
    /\ WasExtract
    /\ outcome.steps # <<>>
    /\ outcome.steps[Len(outcome.steps)] \in {"sabr:returned", "spline:returned"}

(* C1: a call with method 'sabr' never raises an error of the SABR         *)
(* calibration: when SABRModel.calibrate raises (fewer than 3 valid        *)
(* quotes) the spline is calibrated next, and what the call can raise is   *)
(* the insufficient-data error, the spline's error or, after calibration,  *)
(* the degenerate-density error.                                           *)
C1_SabrErrorNeverPropagates ==
    (WasExtract /\ input.method = "sabr") =>
        /\ outcome.error # "sabr_calibration"
        /\ outcome.raised =>
              outcome.error \in {"insufficient_data", "spline_calibration",
                                 "degenerate_density"}
        /\ (input.survivors >= MIN_STRIKES_FOR_PDF /\ input.valid < 3) =>
              /\ Len(outcome.steps) = 2
              /\ outcome.steps[1] = "sabr:raised"
              /\ outcome.steps[2] \in {"spline:returned", "spline:raised"}
              /\ outcome.error \in {"", "spline_calibration", "degenerate_density"}

C1_Witness ==
    /\ WasExtract
    /\ input.method = "sabr"
    /\ input.valid = 2
    /\ outcome.steps = <<"sabr:raised", "spline:returned">>
    /\ ~outcome.raised
    /\ outcome.model.kind = "spline"

(* C2: the call raises the insufficient-data error, naming the count, when *)
(* and only when fewer than 10 rows have a strike in [0.80 spot, 1.20      *)
(* spot] and a price > 0; such a call returns nothing and leaves the       *)
(* stored strikes, pdf and cdf as they were.                               *)
C2_State ==
    WasExtract =>
        /\ (outcome.error = "insufficient_data") <=> (input.survivors < MIN_STRIKES_FOR_PDF)
        /\ (outcome.error = "insufficient_data") =>
              (outcome.raised /\ outcome.count = input.survivors)

C2_Step ==
    (outcome'.op = "calculate_from_options" /\ outcome'.error = "insufficient_data")
        => UNCHANGED <<pdf, strikes, cdf>>

C2_InsufficientData == [](C2_State) /\ [][C2_Step]_vars

C2_Witness ==
    /\ WasExtract
    /\ outcome.error = "insufficient_data"
    /\ input.rows = MIN_STRIKES_FOR_PDF + 1
    /\ input.survivors = MIN_STRIKES_FOR_PDF - 1
    /\ pdf # None

(* C3: a stored (returned) density has no negative entry.                  *)
C3_NonNegative ==
    pdf # None =>
        /\ pdf[1].den > 0
        /\ \A i \in 1..Len(pdf[1].num) : pdf[1].num[i] >= 0

(* The smoothing produced a negative entry, which the second clip removed. *)
C3_Witness ==
    /\ WasExtract
    /\ ~outcome.raised
    /\ ~input.smoothFails
    /\ LET clipped == Clip(LastSecondDerivative)
           smooth == SavgolFilter(clipped, WindowLength(GridPoints))
       IN  \E i \in 1..GridPoints : smooth.num[i] < 0 /\ pdf[1].num[i] = 0

(* C4: the trapezoidal integral of a stored density over the stored grid   *)
(* lies within 1% of 1.                                                    *)
C4_UnitMass ==
    pdf # None =>
        LET integral == Trapezoid(pdf[1], strikes[1])
        IN  /\ 99 * integral.den <= 100 * integral.num
            /\ 100 * integral.num <= 101 * integral.den

C4_Witness ==
    /\ WasExtract
    /\ ~outcome.raised
    /\ LastMass.num # LastMass.den
    /\ Trapezoid(pdf[1], strikes[1]) = Rat(1, 1)

(* C5: a stored CDF is non-decreasing, starts at 0 and ends at exactly 1.  *)
C5_CdfShape ==
    cdf # None =>
        LET c == cdf[1]
            n == Len(c.num)
        IN  /\ n = GridPoints
            /\ c.num[1] = 0
            /\ c.num[n] = c.den
            /\ \A i \in 1..(n - 1) : c.num[i] <= c.num[i + 1]

C5_Witness ==
    /\ WasExtract
    /\ ~outcome.raised
    /\ \E i \in 2..(GridPoints - 1) : 0 < cdf[1].num[i] /\ cdf[1].num[i] < cdf[1].den
    /\ pdf[1].num[1] > 0

(* C6: when the clipped and smoothed curve has an integral <= 0, a call    *)
(* that got as far as normalization raises the degenerate-density error,   *)
(* returns nothing and leaves the stored strikes, pdf and cdf as they were.*)
C6_State ==
    (Calibrated /\ LastMass.num <= 0) =>
        (outcome.raised /\ outcome.error = "degenerate_density")

C6_Step ==
    (outcome'.op = "calculate_from_options" /\ outcome'.error = "degenerate_density")
        => UNCHANGED <<pdf, strikes, cdf>>

C6_DegenerateDensity == [](C6_State) /\ [][C6_Step]_vars

(* A second derivative <= 0 everywhere, clipped to an all-zero curve, on   *)
(* an extractor that holds an earlier density.                             *)
C6_Witness ==
    /\ Calibrated
    /\ outcome.error = "degenerate_density"
    /\ \A i \in 1..GridPoints : LastSecondDerivative.num[i] <= 0
    /\ \E i \in 1..GridPoints : LastSecondDerivative.num[i] < 0
    /\ pdf # None

(* C7: as long as no calculate_from_options call has returned,             *)
(* get_probability and get_probability_range raise the not-ready error.    *)
C7_NotReady ==
    ~succeeded =>
        /\ \A level \in Levels, condition \in Conditions :
              LET res == GetProbability(cdf, strikes, level, condition)
              IN  res.raised /\ res.error = "not_ready"
        /\ \A lo \in Levels, hi \in Levels :
              LET res == GetProbabilityRange(cdf, strikes, lo, hi)
              IN  res.raised /\ res.error = "not_ready"
        /\ WasQuery => (outcome.raised /\ outcome.error = "not_ready")

(* A query after a call that raised.                                       *)
C7_Witness ==
    /\ ~succeeded
    /\ spot # None
    /\ outcome.op = "get_probability"
    /\ outcome.error = "not_ready"

(* C8: for every level of the grid range, the probabilities below and      *)
(* above add up to 1.  Both values are fractions in lowest terms, so a/b   *)
(* and c/d add up to 1 exactly when d = b and a + c = b.                   *)
C8_Complement ==
    cdf # None =>
        \A level \in strikes[1][1]..strikes[1][GridPoints] :
            LET below == GetProbability(cdf, strikes, level, "below")
                above == GetProbability(cdf, strikes, level, "above")
            IN  /\ ~below.raised
                /\ ~above.raised
                /\ above.value.den = below.value.den
                /\ below.value.num + above.value.num = below.value.den

C8_Witness ==
    /\ outcome.op = "get_probability"
    /\ ~outcome.raised
    /\ 0 < outcome.value.num
    /\ outcome.value.num < outcome.value.den

(* C9: whenever the SABR calibration cannot be carried out on the rows     *)
(* that passed the filter (fewer than 3 valid, fewer than 3 distinct       *)
(* strikes, or both optimizers reporting failure), the call returns a      *)
(* density computed through the spline and raises nothing.                 *)
C9_SplineWheneverSabrCannot ==
    (/\ WasExtract
     /\ input.method = "sabr"
     /\ input.survivors >= MIN_STRIKES_FOR_PDF
     /\ \/ input.valid < 3
        \/ input.distinct < 3
        \/ (~input.nm /\ ~input.lb))
        => (~outcome.raised /\ outcome.model.kind = "spline")

(* C10: when the Nelder-Mead attempt and the L-BFGS-B retry both report    *)
(* failure, the returned density comes from the spline model.              *)
C10_SplineAfterFailedOptimizers ==
    (/\ WasExtract
     /\ ~outcome.raised
     /\ input.method = "sabr"
     /\ input.valid >= 3
     /\ ~input.nm
     /\ ~input.lb)
        => outcome.model.kind = "spline"

(* C11: on either model, a calibrate call that keeps fewer than 3 entries  *)
(* raises, and no calibrated model is built from fewer than 3 points.      *)
C11_FewerThanThreeRaises ==
    /\ (vol_outcome.op = "calibrate" /\ vol_outcome.valid < 3) => vol_outcome.raised
    /\ sabr_model.is_calibrated => sabr_model.fit[1].points >= 3
    /\ spline_model.is_calibrated => spline_model.spline[1].points >= 3

(* C12: on a model on which no calibrate call has returned, get_volatility *)
(* raises the not-calibrated error; it returns values only on a model on   *)
(* which one has.                                                          *)
C12_NotCalibrated ==
    /\ "sabr" \notin completed =>
          \A grid \in VolGrids :
              LET res == SABRGetVolatility(sabr_model, grid)
              IN  res.raised /\ res.error = "not_calibrated"
    /\ "spline" \notin completed =>
          \A grid \in VolGrids :
              LET res == SplineGetVolatility(spline_model, grid)
              IN  res.raised /\ res.error = "not_calibrated"
    /\ vol_outcome.op = "get_volatility" =>
          IF vol_outcome.kind \in completed
          THEN ~vol_outcome.raised
          ELSE vol_outcome.raised /\ vol_outcome.error = "not_calibrated"

(* get_volatility on a SABR model whose only calibrate calls raised.       *)
C12_Witness ==
    /\ vol_outcome.op = "get_volatility"
    /\ vol_outcome.kind = "sabr"
    /\ vol_outcome.raised
    /\ sabr_model.forward # None

(* C13: every number get_probability returns lies between 0 and 1, at      *)
(* levels inside and outside the grid.                                     *)
C13_ProbabilityInUnitInterval ==
    (outcome.op = "get_probability" /\ ~outcome.raised) =>
        /\ 0 <= outcome.value.num
        /\ outcome.value.num <= outcome.value.den

(* C14: the grid a call at a positive spot returns has GridPoints equally  *)
(* spaced, strictly increasing points from spot*0.80 to spot*1.20,         *)
(* whatever the quotes, and the density has one entry per grid point.      *)
C14_StrikeGrid ==
    (WasExtract /\ ~outcome.raised /\ input.spot_price > 0) =>
        LET K == strikes[1]
        IN  /\ Len(K) = GridPoints
            /\ 100 * K[1] = MIN_STRIKE_PCT * input.spot_price
            /\ 100 * K[GridPoints] = MAX_STRIKE_PCT * input.spot_price
            /\ \A i \in 1..(GridPoints - 1) : K[i] < K[i + 1]
            /\ \A i \in 1..(GridPoints - 2) : K[i + 1] - K[i] = K[i + 2] - K[i + 1]
            /\ Len(pdf[1].num) = GridPoints

(* A call that returned, at a spot other than the smallest, on a table     *)
(* with rows outside the band.                                             *)
C14_Witness ==
    /\ WasExtract
    /\ ~outcome.raised
    /\ input.spot_price > SpotUnit
    /\ input.survivors < input.rows

(* The densities of the last direct similarity call *)
LastPair == <<Currents[pattern_outcome.current].density, pattern_outcome.hist.density>>

RangesApart ==
    Max(SeqMin(LastPair[1].strikes), SeqMin(LastPair[2].strikes))
        > Min(SeqMax(LastPair[1].strikes), SeqMax(LastPair[2].strikes))

(* C15: the combined score 0.7 * shape + 0.3 * stats is a number between   *)
(* 0 and 1, whatever the densities and statistics compared.  With q the    *)
(* square of the shape part and a the statistics part, 7 sqrt(q) + 3 a     *)
(* lies in [0, 10].                                                        *)
C15_ScoreInUnitInterval ==
    pattern_outcome.op = "calculate_similarity" =>
        LET q == pattern_outcome.score.shape_sq
            a == pattern_outcome.score.stats
            upper == RatSub(Rat(10, 1), RatMul(Rat(3, 1), a))
        IN  /\ ~IsNaN(a)
            /\ q.num >= 0
            /\ a.num >= 0 \/ RatLeqWide(Rat(9 * a.num * a.num, 49 * a.den * a.den), q)
            /\ upper.num >= 0
            /\ RatLeqWide(q, Rat(upper.num * upper.num, 49 * upper.den * upper.den))

(* C16: when the strike ranges of the two densities do not overlap, the    *)
(* shape similarity is 0.                                                  *)
C16_NoOverlapGivesZero ==
    (/\ pattern_outcome.op \in {"calculate_similarity", "calculate_pattern_score"}
     /\ RangesApart)
        => pattern_outcome.shape.sq = Rat(0, 1)

(* The scores of the entries of the corpus against the density of the last *)
(* find_similar_patterns call, and the entries that reach the threshold.   *)
LastScores ==
    [i \in 1..Len(corpus) |->
        CalculateSimilarity(Currents[pattern_outcome.current].density,
                            Currents[pattern_outcome.current].stats,
                            corpus[i].density, corpus[i].stats)]

Qualifying ==
    {i \in 1..Len(corpus) : ScoreAtLeast(LastScores[i], matcher.similarity_threshold)}

Included == {matches[j].date : j \in 1..Len(matches)}

(* C17: find_similar_patterns returns entries of the corpus that reach the *)
(* threshold, each once and with its score, in non-increasing order of     *)
(* score, max_matches of them at most and all of them when there are       *)
(* fewer; no entry left out scores higher than one returned; an empty      *)
(* corpus gives an empty list.                                             *)
C17_FindSimilar ==
    pattern_outcome.op = "find_similar_patterns" =>
        /\ Len(matches) = Min(matcher.max_matches, Cardinality(Qualifying))
        /\ Included \subseteq Qualifying
        /\ Cardinality(Included) = Len(matches)
        /\ \A j \in 1..Len(matches) : matches[j].similarity = LastScores[matches[j].date]
        /\ \A j \in 1..(Len(matches) - 1) :
              ~ScoreGreater(matches[j + 1].similarity, matches[j].similarity)
        /\ \A i \in Qualifying \ Included : \A j \in 1..Len(matches) :
              ~ScoreGreater(LastScores[i], matches[j].similarity)
        /\ corpus = <<>> => matches = <<>>

(* Two entries returned in the reverse of their order in the corpus, a     *)
(* third one that reaches the threshold cut off.                           *)
C17_Witness ==
    /\ pattern_outcome.op = "find_similar_patterns"
    /\ Len(matches) = 2
    /\ matches[1].date > matches[2].date
    /\ ScoreGreater(matches[1].similarity, matches[2].similarity)
    /\ Cardinality(Qualifying) = 3

(* What a call leaves on a fresh extractor when it runs alone              *)
AloneState(a) ==
    LET res == CalculateFromOptions(a.options_df, a.spot_price, a.r, a.T, a.method,
                                    a.nm, a.lb, a.prices, a.smoothFails)
    IN  [pdf |-> res.pdf,
         strikes |-> res.strikes,
         cdf |-> res.cdf, spot |-> Some(a.spot_price), params |-> Some([risk_free_rate |-> a.r, time_to_expiry |-> a.T,
                          option_type |-> a.option_type])]

AloneResult(a) ==
    LET res == CalculateFromOptions(a.options_df, a.spot_price, a.r, a.T, a.method,
                                    a.nm, a.lb, a.prices, a.smoothFails)
    IN  [pdf |-> res.pdf, strikes |-> res.strikes, raised |-> res.raised,
         error |-> res.error]

(* C18: two extractions run at the same time on extractors of their own,   *)
(* their statements interleaved in any order, each return what the call    *)
(* returns alone and leave on their extractor what it leaves alone; the    *)
(* module-level names are never written.                                   *)
C18_IndependentInstances ==
    /\ module_globals = ModuleGlobals
    /\ \A t \in Threads :
          threads[t].pc = "done" =>
              /\ threads[t].result = AloneResult(threads[t].args[1])
              /\ threads[t].self = AloneState(threads[t].args[1])

(* Both callers are through, each took statements while the other was     *)
(* inside the call, at different spots, and one of them got a density.     *)
C18_Witness ==
    /\ \A t \in Threads : threads[t].pc = "done" /\ threads[t].interleaved
    /\ threads[1].args[1].spot_price # threads[2].args[1].spot_price
    /\ ~threads[1].result.raised
    /\ threads[1].self.strikes # threads[2].self.strikes

(* C19: no division of the core is carried out with a zero denominator;    *)
(* here the two divisions of the shape similarity by the integrals of the  *)
(* re-sampled densities (a density of zero mass, or one that is zero at    *)
(* the end the common grid is clamped to).                                 *)
C19_NoDivisionByZero ==
    pattern_outcome.op \in {"calculate_similarity", "calculate_pattern_score"}
        => ~pattern_outcome.shape.zero_division

(* C20: an exception raised inside calculate_from_options reaches the      *)
(* caller; here the one raised by the smoothing step.                      *)
C20_SmoothingErrorPropagates ==
    (WasExtract /\ input.smoothFails) => outcome.raised

(* C21: every match carries the identifier of the historical entry, its    *)
(* combined similarity, its shape similarity, its statistics similarity    *)
(* and a description, and store_pattern_matches records for each match the *)
(* identifier of the historical entry and the two parts of the score as    *)
(* they were computed.                                                     *)
C21_MatchFields ==
    pattern_outcome.op = "find_similar_patterns" =>
        /\ \A j \in 1..Len(matches) :
              {"id", "similarity", "shape_similarity", "stats_similarity", "description"}
                  \subseteq DOMAIN matches[j]
        /\ ~pattern_store.raised
        /\ \A j \in 1..Len(pattern_store.table) :
              LET row == pattern_store.table[j]
                  i == matches[j].date
              IN  /\ row.historical_snapshot_id = corpus[i].id
                  /\ ScoreValue(row.shape_similarity) = SqrtRat(LastScores[i].shape_sq)
                  /\ ScoreValue(row.stats_similarity) = LastScores[i].stats

(* C22: the price a call uses for its quotes is (bid + ask) / 2 when the   *)
(* table has bid and ask, the last price otherwise; a table with bid and   *)
(* ask and no price column is served as well.                              *)
C22_MidPrice ==
    WasExtract =>
        /\ "price" \notin input.columns /\ {"bid", "ask"} \subseteq input.columns
              => outcome.error # "missing_column"
        /\ market_prices # None =>
              \A i \in 1..Len(market_prices[1]) :
                  market_prices[1][i] = IF {"bid", "ask"} \subseteq input.columns
                                        THEN Rat(6, 1)
                                        ELSE Rat(5, 1)

(* The searches of the call are the simplex search, then at most the       *)
(* bounded one, which is there exactly when the first did not succeed.     *)
SearchOrder ==
    LET runs == calibration.runs
    IN  /\ Len(runs) <= 2
        /\ calibration.pc \in {"search", "done"} =>
              /\ Len(runs) >= 1
              /\ runs[1] = [success |-> runs[1].success, method |-> "Nelder-Mead",
                            bounds |-> None, x0 |-> InitialGuess,
                            maxiter |-> MAXITER]
        /\ Len(runs) = 2 =>
              /\ runs[1].success = Some(FALSE)
              /\ runs[2] = [success |-> runs[2].success, method |-> "L-BFGS-B",
                            bounds |-> Some(Box), x0 |-> InitialGuess,
                            maxiter |-> MAXITER]
        /\ (calibration.pc = "done" /\ Len(runs) = 1) => runs[1].success = Some(TRUE)
        /\ calibration.pc = "search" =>
              /\ runs[Len(runs)].success = None
              /\ calibration.iterations <= MAXITER

(* C23: a calibrate call runs the simplex search from the initial guess,   *)
(* the bounded quasi-Newton search (same guess, the box) if and only if    *)
(* the simplex search did not report success, no third search; no search   *)
(* goes over 1000 iterations and the call always comes to its end.         *)
C23_SearchSequence ==
    /\ []SearchOrder
    /\ (calibration.pc = "search") ~> (calibration.pc = "done")

(* The call has returned after both searches, the first stopped at the cap *)
C23_Witness ==
    /\ calibration.pc = "done"
    /\ Len(calibration.runs) = 2
    /\ calibration.runs[2].success = Some(FALSE)

(* The curve the smoothing is given: e^(rT) * d2C/dK2 clipped at 0 *)
ClippedCurve ==
    Clip(Gradient(Gradient(Vec(smoothing.call_prices, 1), smoothing.K), smoothing.K))

SharedFeatures ==
    {f \in {"skewness", "excess_kurtosis", "implied_move_pct"} :
        /\ f \in DOMAIN Currents[pattern_outcome.current].stats
        /\ f \in DOMAIN pattern_outcome.hist.stats}

FeatureTerm(f) ==
    LET d == Abs(Currents[pattern_outcome.current].stats[f].v
                 - pattern_outcome.hist.stats[f].v)
    IN  IF f = "implied_move_pct" THEN Rat(1, 2 ^ (d \div 5)) ELSE Rat(1, 2 ^ d)

FeatureIsNaN(f) ==
    \/ Currents[pattern_outcome.current].stats[f].nan
    \/ pattern_outcome.hist.stats[f].nan

TermOrZero(f) == IF f \in SharedFeatures THEN FeatureTerm(f) ELSE Rat(0, 1)

(* C25: the statistics similarity is the mean of exp(-|difference|/scale)  *)
(* over the features both mappings have, with scale 1 for skewness and     *)
(* excess_kurtosis and 5 for implied_move_pct, and 0.5 when they share     *)
(* none; a feature one side lacks does not count.                          *)
C25_StatsSimilarity ==
    pattern_outcome.op = "calculate_similarity" =>
        LET a == pattern_outcome.score.stats
        IN  IF SharedFeatures = {} THEN a = Rat(1, 2)
            ELSE IF \E f \in SharedFeatures : FeatureIsNaN(f) THEN IsNaN(a)
            ELSE RatMul(a, Rat(Cardinality(SharedFeatures), 1))
                     = RatAdd(TermOrZero("skewness"),
                              RatAdd(TermOrZero("excess_kurtosis"),
                                     TermOrZero("implied_move_pct")))

(* Two of the three features shared, with differences on both *)
C25_Witness ==
    /\ pattern_outcome.op = "calculate_similarity"
    /\ SharedFeatures = {"skewness", "implied_move_pct"}
    /\ FeatureTerm("skewness") # Rat(1, 1)
    /\ FeatureTerm("implied_move_pct") # Rat(1, 1)
    /\ FeatureTerm("skewness") # FeatureTerm("implied_move_pct")

(* C26: the stored spot belongs to the call that produced the stored grid, *)
(* density and CDF: the grid runs from 0.80 to 1.20 times the stored spot  *)
(* (a failed call leaves spot and params as they were, like the other      *)
(* three).                                                                 *)
C26_OneExtraction ==
    pdf # None => strikes[1] = GridOf(spot[1])

(* The percentiles the monotonicity is checked at, the summary's among them *)
PercentileLevels ==
    {Rat(0, 1), Rat(25, 10), Rat(16, 1), Rat(30, 1), Rat(50, 1), Rat(70, 1),
     Rat(84, 1), Rat(975, 10), Rat(100, 1)}

(* C27: on a strictly increasing grid and a non-negative density of        *)
(* positive mass, strikes[0] <= ci_95_lower <= ci_68_lower <= median <=    *)
(* ci_68_upper <= ci_95_upper <= strikes[-1]; calculate_percentile is      *)
(* non-decreasing in its argument and stays inside the grid.               *)
C27_PercentilesOrdered ==
    (/\ statistics.pdf # None
     /\ \E i \in 1..Len(statistics.strikes) : statistics.pdf[1].num[i] > 0) =>
        LET K == statistics.strikes
            st == statistics.stats[1]
            first == Rat(K[1], 1)
            last == Rat(K[Len(K)], 1)
            at(p) == CalculatePercentile(K, statistics.pdf[1], p)
        IN  /\ RatLeq(first, st.ci_95_lower)
            /\ RatLeq(st.ci_95_lower, st.ci_68_lower)
            /\ RatLeq(st.ci_68_lower, st.median)
            /\ RatLeq(st.median, st.ci_68_upper)
            /\ RatLeq(st.ci_68_upper, st.ci_95_upper)
            /\ RatLeq(st.ci_95_upper, last)
            /\ \A p \in PercentileLevels :
                  /\ at(p).den > 0
                  /\ RatLeq(first, at(p))
                  /\ RatLeq(at(p), last)
            /\ \A p, q \in PercentileLevels : RatLeq(p, q) => RatLeq(at(p), at(q))

(* A density that is 0 on a stretch of the grid, so that its CDF is flat   *)
(* there, with five different percentiles and a median between two strikes *)
C27_Witness ==
    /\ statistics.pdf # None
    /\ \E i \in 1..(StatPoints - 1) :
          /\ statistics.pdf[1].num[i] = 0
          /\ statistics.pdf[1].num[i + 1] = 0
    /\ LET st == statistics.stats[1]
       IN  /\ st.median.den > 1
           /\ RatLess(st.ci_95_lower, st.ci_68_lower)
           /\ RatLess(st.ci_68_lower, st.median)
           /\ RatLess(st.median, st.ci_68_upper)
           /\ RatLess(st.ci_68_upper, st.ci_95_upper)

(* C28: the interpolation_method of an analyze response is the variant     *)
(* that produced the returned density: 'spline' when SABR was requested    *)
(* and the calibration fell back to the spline.                            *)
C28_ReportedMethod ==
    response.status = 200 =>
        response.data[1].interpolation_method = response.model.kind

(* What the claim has get return: the data of the last set of the key      *)
(* since it was last cleared, if that set is at most ttl old; a set whose  *)
(* data pickle refused has stored no value                                 *)
ExpectedGet(key, now) ==
    IF /\ cache_calls[key] # None
       /\ cache_calls[key][1].data.picklable
       /\ now - cache_calls[key][1].time <= CacheTtl
    THEN Some(cache_calls[key][1].data.value)
    ELSE None

(* C29: get(k) returns the value of the most recent set(k) if that set is  *)
(* at most ttl old and no clear of k or of the whole cache followed it,    *)
(* and None otherwise; an expired entry is removed by the get that finds   *)
(* it; get(k) never returns a value stored under another key.              *)
C29_CacheGet ==
    cache_outcome.op = "get" =>
        LET k == cache_outcome.key[1]
        IN  /\ cache_outcome.result = ExpectedGet(k, cache_outcome.time)
            /\ (/\ cache_calls[k] # None
                /\ cache_outcome.time - cache_calls[k][1].time > CacheTtl)
                  => (/\ cache_files[GetCachePath(k)] = None
                      /\ cache_files[GetMetadataPath(k)] = None)
            /\ cache_outcome.result # None
                  => (/\ cache_calls[k] # None
                      /\ cache_outcome.result[1] = cache_calls[k][1].data.value)

(* The last call of the manager is a get_options that found nothing in     *)
(* the cache                                                               *)
WasMiss == manager_call.op = "get_options" /\ ~manager_call.hit

(* The sources the claim has a miss go through *)
SourcesInOrder ==
    LET given == /\ manager_call.force_source # None
                 /\ manager_call.force_source[1] # ""
    IN  IF given
        THEN IF manager_call.force_source[1] \in {"openbb", "yfinance"}
             THEN <<manager_call.force_source[1]>> ELSE <<>>
        ELSE <<"openbb", "yfinance">>

(* A miss, under way or ended: the clients called so far are the first of  *)
(* the sources in order, none was called after one that answered, and the  *)
(* call has ended with the answer of the last or, every source having      *)
(* failed, with RuntimeError                                               *)
C30_State ==
    WasMiss =>
        LET order == SourcesInOrder
            tried == manager_call.attempts
            n == Len(tried)
        IN  /\ n <= Len(order)
            /\ \A i \in 1..n : tried[i].source = order[i]
            /\ \A i \in 1..(n - 1) : ~tried[i].ok
            /\ manager_call.pc = "sources" =>
                  /\ n < Len(order)
                  /\ \A i \in 1..n : ~tried[i].ok
            /\ manager_call.pc = "done" =>
                  /\ manager_call.raised <=> (\A i \in 1..n : ~tried[i].ok)
                  /\ manager_call.raised =>
                        /\ n = Len(order)
                        /\ manager_call.result = None
                  /\ ~manager_call.raised =>
                        /\ tried[n].ok
                        /\ manager_call.result # None
                        /\ manager_call.result[1].source = tried[n].source
                        /\ manager.active_source = Some(tried[n].source)

(* The step that ends a miss: a call that returns has written its result   *)
(* under its key, with the time of the step, when use_cache is on; a call  *)
(* that raises writes no file: each is as it was or, expired, gone         *)
C30_Step ==
    (/\ manager_call'.op = "get_options"
     /\ manager_call'.pc = "done"
     /\ ~manager_call'.hit
     /\ manager_call' # manager_call)
        => IF manager_call'.raised \/ ~manager'.use_cache
           THEN \A path \in DirectoryPaths :
                   cache_files'[path] \in {cache_files[path], None}
           ELSE /\ CacheGet(cache_files', manager_call'.cache_key, clock).result
                      = manager_call'.result
                /\ cache_files'[GetMetadataPath(manager_call'.cache_key)][1].timestamp
                      = clock

(* C30: on a cache miss the sources are tried in DATA_SOURCE_PRIORITY      *)
(* order (only force_source when given); the first that succeeds gives the *)
(* result, no later one is tried, it becomes active_source and the result  *)
(* is cached; RuntimeError is raised if and only if every source tried     *)
(* failed, and then nothing is cached.                                     *)
C30_SourceFallback == []C30_State /\ [][C30_Step]_vars

(* A miss where openbb failed and yfinance answered two minutes after the  *)
(* call began, with the result in the cache under the time of the answer   *)
C30_Witness ==
    /\ WasMiss
    /\ manager_call.pc = "done"
    /\ manager.use_cache
    /\ manager_call.attempts = <<[source |-> "openbb", ok |-> FALSE],
                                 [source |-> "yfinance", ok |-> TRUE]>>
    /\ manager.active_source = Some("yfinance")
    /\ clock = 2
    /\ cache_files[GetMetadataPath(manager_call.cache_key)] # None
    /\ cache_files[GetMetadataPath(manager_call.cache_key)][1].timestamp = 2
    /\ CacheGet(cache_files, manager_call.cache_key, clock).result = manager_call.result

====
